---- MODULE Spec2Model ----
(***************************************************************************)
(* Worker/judge orchestration and consensus engine of devgru               *)
(* (internal/runner): Run fans a prompt out to the configured workers,     *)
(* joins them, computes the aggregate totals and runs the configured       *)
(* consensus algorithm.                                                    *)
(*                                                                         *)
(* Scores are float64 in the source.  Every score of the model is a        *)
(* quotient of small integers, kept as a pair <<numerator, denominator>>   *)
(* with a positive denominator and compared by cross-multiplication; the   *)
(* minimum score is kept in hundredths.  Within the bounds two different   *)
(* quotients differ by far more than one float64 ulp, so the exact         *)
(* comparison and the rounded one agree.                                   *)
(***************************************************************************)
EXTENDS Integers, Sequences, FiniteSets, TLC

\* ------------------------------------------------------------------ bounds
MaxWorkers == 2
MaxJudges == 2
MaxContentLen == 1
PromptLen == 8
ReportedTokens == 7
MaxDiagFrames == 6
MaxBroadcasts == 2
MaxPathLen == 3
MaxLines == 12

\* The input sets of a run.  MinScores are hundredths (0 is an unset
\* min_score).  A whole Run is explored with at most one judge; the consensus
\* engine on its own (SpecConsensus) with up to MaxJudges judges.
Algorithms == {"majority", "score_top1", "embedding_cluster", "referee", "bogus"}
MinScores == {0, 400, 600, 800, 801}
JudgeScores == {4, 6, 8}
Deltas == {"", "x"}
RunJudgeCounts == {0, 1}

\* ------------------------------------------------------------ data model
Nil == "nil"

NoTokens ==
  [present |-> FALSE, PromptTokens |-> 0, CompletionTokens |-> 0, TotalTokens |-> 0]

TokenUsage(p, c) ==
  [present |-> TRUE, PromptTokens |-> p, CompletionTokens |-> c, TotalTokens |-> p + c]

WorkerResult ==
  [WorkerID |-> "", Content |-> "", TokensUsed |-> NoTokens, EstimatedCost |-> 0,
   Error |-> Nil, JudgeResults |-> <<>>, AverageScore |-> <<0, 1>>]

Consensus ==
  [present |-> FALSE, Algorithm |-> "", Winner |-> "", Content |-> "",
   Confidence |-> <<0, 1>>, Reasoning |-> <<>>, Participants |-> 0]

RunResult ==
  [Workers |-> <<>>, Consensus |-> Consensus, TotalTokens |-> 0, EstimatedCost |-> 0,
   Success |-> FALSE]

WorkerID(i) == "w" \o ToString(i)

JudgeID(j) == "j" \o ToString(j)

\* The provider registry of the runner, and a name that is not in it.
Providers == {"p1"}

ProviderRefs == Providers \cup {"ghost"}

\* A configuration: the workers in configuration order, each with a provider
\* reference that the registry holds or not, the judges, the algorithm and
\* the minimum score in hundredths.
Config(ps, nj, alg, ms) ==
  [Workers |-> [i \in 1..Len(ps) |-> [ID |-> WorkerID(i), Provider |-> ps[i]]],
   Judges |-> [j \in 1..nj |-> [ID |-> JudgeID(j)]],
   Algorithm |-> alg, MinScore |-> ms]

ProviderLists == UNION { [1..n -> ProviderRefs] : n \in 0..MaxWorkers }

\* Judges and the minimum score are read by score_top1 only.
Configs(judgeCounts) ==
  { Config(ps, 0, alg, 0) : ps \in ProviderLists, alg \in Algorithms \ {"score_top1"} }
    \cup { Config(ps, nj, "score_top1", ms) :
              ps \in ProviderLists, nj \in judgeCounts, ms \in MinScores }

\* ------------------------------------------------------------- rationals
RatLT(a, b) == a[1] * b[2] < b[1] * a[2]

RatEQ(a, b) == a[1] * b[2] = b[1] * a[2]

RatGT(a, b) == RatLT(b, a)

Range(f) == {f[x] : x \in DOMAIN f}

\* ------------------------------------------------------- stream collector
CharsPerToken == 4

EstimateTokens(len) == len \div CharsPerToken

Reported == TokenUsage(ReportedTokens, ReportedTokens)

\* EstimateCost with the default pricing (3.00 and 15.00 dollars per million
\* tokens), in millionths of a dollar.
InputPrice == 3

OutputPrice == 15

EstimateCost(tokens) ==
  IF ~tokens.present THEN 0
  ELSE tokens.PromptTokens * InputPrice + tokens.CompletionTokens * OutputPrice

\* What a receive on the response channel yields: the channel is closed
\* (ok = FALSE), an error chunk, or a data chunk.
Responses ==
  { [ok |-> FALSE, Delta |-> "", Done |-> FALSE, TokensUsed |-> NoTokens, Error |-> Nil],
    [ok |-> TRUE, Delta |-> "", Done |-> FALSE, TokensUsed |-> NoTokens, Error |-> "stream"] }
    \cup { [ok |-> TRUE, Delta |-> d, Done |-> dn, TokensUsed |-> t, Error |-> Nil] :
              d \in Deltas, dn \in BOOLEAN, t \in {NoTokens, Reported} }

NewStreamCollector ==
  [Content |-> "", TokensUsed |-> NoTokens, Error |-> Nil, returned |-> FALSE]

\* One iteration of Collect's loop that takes the channel branch.
CollectRecv(sc, response) ==
  IF ~response.ok THEN [sc EXCEPT !.returned = TRUE]
  ELSE IF response.Error # Nil
    THEN [sc EXCEPT !.Error = response.Error, !.returned = TRUE]
    ELSE [Content |-> sc.Content \o response.Delta,
          TokensUsed |-> IF response.TokensUsed.present
                           THEN response.TokensUsed ELSE sc.TokensUsed,
          Error |-> sc.Error,
          returned |-> response.Done]

\* The iteration that takes the ctx.Done() branch.
CollectCtxDone(sc) == [sc EXCEPT !.Error = "ctx", !.returned = TRUE]

\* ----------------------------------------------------------- worker task
\* runSingleWorker after Collect returned: populate the result and estimate
\* the token usage the provider did not report.
PopulateResult(worker, sc) ==
  LET r == [WorkerResult EXCEPT !.WorkerID = worker.ID, !.Content = sc.Content,
                                !.TokensUsed = sc.TokensUsed, !.Error = sc.Error]
      t == IF ~r.TokensUsed.present /\ r.Error = Nil /\ r.Content # ""
             THEN TokenUsage(EstimateTokens(PromptLen), EstimateTokens(Len(r.Content)))
             ELSE r.TokensUsed
  IN [r EXCEPT !.TokensUsed = t, !.EstimatedCost = EstimateCost(t)]

FailedResult(worker, err) == [WorkerResult EXCEPT !.WorkerID = worker.ID, !.Error = err]

\* results[i] = result, under the mutex.
PublishAppend(slots, i, r) ==
  LET k == CHOOSE k \in 1..Len(slots) :
             slots[k].WorkerID = "" /\ \A m \in 1..(k - 1) : slots[m].WorkerID # ""
  IN [slots EXCEPT ![k] = r]

Publish(slots, i, r) == [slots EXCEPT ![i] = r]

\* What the function handed to g.Go returns.
TaskReturnsError(r) == r.Error

TaskReturn(r) == Nil

\* ------------------------------------------------------- judge evaluator
\* What one judge task ends with: a failure (provider, deadline, no JSON
\* object, score out of range) or a valid score.
JudgeReplies ==
  {[ok |-> FALSE, score |-> 0]} \cup {[ok |-> TRUE, score |-> s] : s \in JudgeScores}

evaluateWithSingleJudge(worker, judge, reply) ==
  [JudgeID |-> judge.ID, WorkerID |-> worker.WorkerID,
   Score |-> IF reply.ok THEN reply.score ELSE 0,
   Error |-> IF reply.ok THEN Nil ELSE "judge"]

\* The filter after g.Wait(): the results without an error, in judge order.
validResults(slots) == SelectSeq(slots, LAMBDA r : r.Error = Nil)

\* One slot per judge, then the failed evaluations are filtered out.
evaluateWithJudges(worker, judges, replies) ==
  LET slots == [j \in 1..Len(judges) |->
                  evaluateWithSingleJudge(worker, judges[j], replies[j])]
  IN validResults(slots)

RECURSIVE SumScores(_)
SumScores(judgeResults) ==
  IF Len(judgeResults) = 0 THEN 0
  ELSE Head(judgeResults).Score + SumScores(Tail(judgeResults))

calculateAverageScore(judgeResults) ==
  IF Len(judgeResults) = 0 THEN <<0, 1>>
  ELSE <<SumScores(judgeResults), Len(judgeResults)>>

\* ------------------------------------------------------- consensus engine
\* What a consensus function hands back, with the locals of scoreTop1Consensus
\* (workers is the slice it was given, after its final copy).
Outcome(consensus, err, workers) ==
  [consensus |-> consensus, err |-> err, workers |-> workers,
   evaluatedWorkers |-> <<>>, bestWorker |-> 0, bestScore |-> <<-1, 1>>]

HasNoError(worker) == worker.Error = Nil

HasContent(worker) == worker.Content # ""

IsSuccessful(worker) == worker.Error = Nil /\ worker.Content # ""

majorityConsensusLast(workers, consensus) ==
  LET winner == workers[Len(workers)]
  IN Outcome([consensus EXCEPT !.present = TRUE, !.Winner = winner.WorkerID,
                !.Content = winner.Content, !.Confidence = <<1, Len(workers)>>],
             Nil, workers)

majorityConsensus(workers, consensus) ==
  IF Len(workers) = 0
    THEN Outcome(Consensus, "no workers for majority consensus", workers)
    ELSE LET winner == workers[1]
         IN Outcome([consensus EXCEPT !.present = TRUE, !.Winner = winner.WorkerID,
                       !.Content = winner.Content,
                       !.Confidence = <<1, Len(workers)>>],
                    Nil, workers)

NeverNoJudges(judges) == FALSE

NoJudges(judges) == Len(judges) = 0

\* score > bestScore
BetterOrEqual(score, bestScore) == ~RatLT(score, bestScore)

Better(score, bestScore) == RatGT(score, bestScore)

\* bestScore < MinScore, the minimum score being in hundredths
BelowOrAtThreshold(bestScore, minScore) == ~RatGT(bestScore, <<minScore, 100>>)

BelowThreshold(bestScore, minScore) == RatLT(bestScore, <<minScore, 100>>)

ComparisonScoreAlwaysDefault(worker) == <<5, 1>>

ComparisonScoreNoDefault(worker) == worker.AverageScore

\* The score a worker enters the selection with: 5.0 when it has no judge
\* result, its average score otherwise.
ComparisonScore(worker) ==
  IF Len(worker.JudgeResults) = 0 THEN <<5, 1>> ELSE worker.AverageScore

\* The selection loop: [idx, score] after the workers from i on.
RECURSIVE FindBest(_, _, _, _)
FindBest(evaluatedWorkers, i, bestWorker, bestScore) ==
  IF i > Len(evaluatedWorkers) THEN [idx |-> bestWorker, score |-> bestScore]
  ELSE LET worker == evaluatedWorkers[i]
           score == ComparisonScore(worker)
       IN IF worker.Error = Nil /\ Better(score, bestScore)
            THEN FindBest(evaluatedWorkers, i + 1, i, score)
            ELSE FindBest(evaluatedWorkers, i + 1, bestWorker, bestScore)

\* The confidence of a score_top1 consensus: bestScore / 10.0
ConfidenceRaw(bestScore) == bestScore

Confidence(bestScore) == <<bestScore[1], bestScore[2] * 10>>

\* The per-judge lines of the reasoning: judge id and score of every judge
\* result of the best worker.
ReasoningByPosition(bestWorker, judges) ==
  [k \in 1..Len(bestWorker.JudgeResults) |->
     <<judges[k].ID, bestWorker.JudgeResults[k].Score>>]

Reasoning(bestWorker, judges) ==
  [k \in 1..Len(bestWorker.JudgeResults) |->
     <<bestWorker.JudgeResults[k].JudgeID, bestWorker.JudgeResults[k].Score>>]

scoreTop1Consensus(workers, consensus, cfg, replies) ==
  IF NoJudges(cfg.Judges) THEN majorityConsensus(workers, consensus)
  ELSE
    LET evaluatedWorkers ==
          [i \in 1..Len(workers) |->
             IF workers[i].Error = Nil
               THEN LET judgeResults == evaluateWithJudges(workers[i], cfg.Judges, replies[i])
                    IN [workers[i] EXCEPT !.JudgeResults = judgeResults,
                          !.AverageScore = calculateAverageScore(judgeResults)]
               ELSE workers[i]]
        best == FindBest(evaluatedWorkers, 1, 0, <<-1, 1>>)
        locals(out) == [out EXCEPT !.evaluatedWorkers = evaluatedWorkers,
                                   !.bestWorker = best.idx, !.bestScore = best.score]
    IN IF best.idx = 0
         THEN locals(Outcome(Consensus, "no valid workers found for scoring", workers))
       ELSE IF BelowThreshold(best.score, cfg.MinScore)
         THEN locals(Outcome(Consensus, "best score does not meet minimum threshold",
                             workers))
       ELSE LET bestWorker == evaluatedWorkers[best.idx]
            IN locals(Outcome(
                 [consensus EXCEPT !.present = TRUE, !.Winner = bestWorker.WorkerID,
                    !.Content = bestWorker.Content,
                    !.Confidence = Confidence(best.score),
                    !.Reasoning = Reasoning(bestWorker, cfg.Judges)],
                 Nil, evaluatedWorkers))

\* The branches of the algorithms that are not written yet.
FallBackToMajority(workers, consensus, algorithm) ==
  majorityConsensus(workers, consensus)

NotImplemented(workers, consensus, algorithm) ==
  Outcome(Consensus, algorithm \o " consensus not yet implemented", workers)

runConsensus(workers, cfg, replies) ==
  LET successfulWorkers == SelectSeq(workers, IsSuccessful)
      consensus == [Consensus EXCEPT !.Algorithm = cfg.Algorithm,
                                     !.Participants = Len(successfulWorkers)]
  IN IF Len(successfulWorkers) = 0
       THEN Outcome(Consensus, "no successful workers to build consensus from",
                    successfulWorkers)
     ELSE IF cfg.Algorithm = "majority"
       THEN majorityConsensus(successfulWorkers, consensus)
     ELSE IF cfg.Algorithm = "score_top1"
       THEN scoreTop1Consensus(successfulWorkers, consensus, cfg, replies)
     ELSE IF cfg.Algorithm = "embedding_cluster"
       THEN NotImplemented(successfulWorkers, consensus, "embedding_cluster")
     ELSE IF cfg.Algorithm = "referee"
       THEN NotImplemented(successfulWorkers, consensus, "referee")
     ELSE Outcome(Consensus, "unknown consensus algorithm", successfulWorkers)

\* The judge replies a call of runConsensus can meet: one per judge for every
\* worker score_top1 evaluates, none when no judge is asked.
ReplySpace(workers, cfg) ==
  IF cfg.Algorithm = "score_top1" /\ Len(cfg.Judges) > 0
    THEN [1..Len(SelectSeq(workers, IsSuccessful)) -> [1..Len(cfg.Judges) -> JudgeReplies]]
    ELSE {<<>>}

\* ------------------------------------------------------------------- Run
RECURSIVE SumTokensSuccessful(_)
SumTokensSuccessful(workers) ==
  IF Len(workers) = 0 THEN 0
  ELSE (IF Head(workers).TokensUsed.present /\ IsSuccessful(Head(workers))
          THEN Head(workers).TokensUsed.TotalTokens ELSE 0)
         + SumTokensSuccessful(Tail(workers))

RECURSIVE SumTokens(_)
SumTokens(workers) ==
  IF Len(workers) = 0 THEN 0
  ELSE (IF Head(workers).TokensUsed.present THEN Head(workers).TokensUsed.TotalTokens ELSE 0)
         + SumTokens(Tail(workers))

RECURSIVE SumCost(_)
SumCost(workers) ==
  IF Len(workers) = 0 THEN 0
  ELSE Head(workers).EstimatedCost + SumCost(Tail(workers))

calculateAggregateStats(res) ==
  [res EXCEPT !.TotalTokens = SumTokens(res.Workers),
              !.EstimatedCost = SumCost(res.Workers)]

\* g.Wait() returns once every task of the group has returned.
WaitReturnsOnFirst(tasks) == \E i \in DOMAIN tasks : tasks[i] = "done"

WaitReturns(tasks) == \A i \in DOMAIN tasks : tasks[i] = "done"

\* fmt.Errorf("consensus failed: %w", err)
ConsensusFailed(err) == "consensus failed: " \o err

\* The end of Run after runConsensus returned.
RunReturnAlwaysSuccess(res, consensus, err) ==
  [res EXCEPT !.Consensus = consensus, !.Success = TRUE]

RunReturnDropsWorkers(res, consensus, err) ==
  IF err # Nil THEN [RunResult EXCEPT !.Success = FALSE]
  ELSE [res EXCEPT !.Consensus = consensus, !.Success = TRUE]

RunReturn(res, consensus, err) ==
  IF err # Nil THEN [res EXCEPT !.Success = FALSE]
  ELSE [res EXCEPT !.Consensus = consensus, !.Success = TRUE]

\* The results runSingleWorker can end with for one configured worker.
FinalCollectors ==
  { [NewStreamCollector EXCEPT !.returned = TRUE],
    [NewStreamCollector EXCEPT !.Content = "x", !.returned = TRUE],
    [NewStreamCollector EXCEPT !.Content = "x", !.Error = "stream", !.returned = TRUE] }

WorkerOutcomes(worker) ==
  IF worker.Provider \notin Providers THEN {FailedResult(worker, "lookup")}
  ELSE {FailedResult(worker, "ask")}
         \cup {PopulateResult(worker, sc) : sc \in FinalCollectors}

NoOutcome == Outcome(Consensus, Nil, <<>>)

\* ----------------------------------------------- one judge task in detail
\* The text of a judge's reply as a sequence of tokens: prose, white space,
\* braces and the members of a JSON object (a score member is written as its
\* number, "bad" is a score member whose value is not an integer).
ReplyTexts ==
  { <<>>,
    <<"prose">>,
    <<"{", "7", "}">>,
    <<" ", "prose", "{", "7", "reason", "}", "prose", " ">>,
    <<"{", "0", "}">>,
    <<"{", "10", "}">>,
    <<"{", "11", "}">>,
    <<"{", "-1", "}">>,
    <<"{", "reason", "}">>,
    <<"{", "4", "7", "}">>,
    <<"}", "{">>,
    <<"{", "7">>,
    <<"{", "bad", "}">>,
    <<"{", "7", "}", "prose", "{", "10", "}">> }

ScoreMembers == {"-1", "0", "4", "7", "10", "11"}

\* The integer a score member carries.
ScoreValue(token) == CHOOSE n \in -1..11 : ToString(n) = token

\* strings.TrimSpace
RECURSIVE TrimLeft(_)
TrimLeft(text) ==
  IF Len(text) > 0 /\ Head(text) = " " THEN TrimLeft(Tail(text)) ELSE text

RECURSIVE TrimRight(_)
TrimRight(text) ==
  IF Len(text) > 0 /\ text[Len(text)] = " "
    THEN TrimRight(SubSeq(text, 1, Len(text) - 1)) ELSE text

TrimSpace(text) == TrimRight(TrimLeft(text))

\* strings.Index and strings.LastIndex, 0 standing for "not found".
Index(text, token) ==
  IF \E i \in 1..Len(text) : text[i] = token
    THEN CHOOSE i \in 1..Len(text) :
           text[i] = token /\ \A k \in 1..(i - 1) : text[k] # token
    ELSE 0

LastIndex(text, token) ==
  IF \E i \in 1..Len(text) : text[i] = token
    THEN CHOOSE i \in 1..Len(text) :
           text[i] = token /\ \A k \in (i + 1)..Len(text) : text[k] # token
    ELSE 0

\* json.Unmarshal of a text that starts with "{" and ends with "}" into
\* struct{Score int; Reason string}: the text between the braces must hold
\* members only, a score member must carry an integer, the last score member
\* counts and an absent one leaves Score at 0.
Unmarshal(jsonStr) ==
  LET members == SubSeq(jsonStr, 2, Len(jsonStr) - 1)
      scores == SelectSeq(members, LAMBDA m : m \in ScoreMembers)
  IN IF \E i \in 1..Len(members) : members[i] \notin ScoreMembers \cup {"reason", " "}
       THEN [Score |-> 0, err |-> "failed to unmarshal JSON"]
       ELSE [Score |-> IF Len(scores) = 0 THEN 0 ELSE ScoreValue(scores[Len(scores)]),
             err |-> Nil]

\* judgeResponse.Score < 0 || judgeResponse.Score > 10
OutOfRangeAboveOnly(score) == score > 10

OutOfRange(score) == score < 0 \/ score > 10

parseJudgeResponse(response) ==
  LET text == TrimSpace(response)
      start == Index(text, "{")
      end == LastIndex(text, "}")
  IN IF start = 0 \/ end = 0 \/ end <= start
       THEN [Score |-> 0, err |-> "no JSON object found in response"]
     ELSE LET judgeResponse == Unmarshal(SubSeq(text, start, end))
          IN IF judgeResponse.err # Nil THEN judgeResponse
             ELSE IF OutOfRange(judgeResponse.Score)
               THEN [Score |-> 0, err |-> "score is out of range (0-10)"]
             ELSE judgeResponse

JudgeResult(worker, judge) ==
  [JudgeID |-> judge.ID, WorkerID |-> worker.WorkerID, Score |-> 0, Error |-> Nil]

\* evaluateWithSingleJudge after Collect returned.
JudgeResultFrom(worker, judge, sc) ==
  IF sc.Error # Nil THEN [JudgeResult(worker, judge) EXCEPT !.Error = sc.Error]
  ELSE LET parsed == parseJudgeResponse(sc.Content)
       IN IF parsed.err # Nil
            THEN [JudgeResult(worker, judge) EXCEPT !.Error = "failed to parse judge response"]
            ELSE [JudgeResult(worker, judge) EXCEPT !.Score = parsed.Score]

\* What a receive on a judge's response channel yields.
JudgeResponses ==
  { [ok |-> FALSE, Delta |-> <<>>, Done |-> FALSE, TokensUsed |-> NoTokens, Error |-> Nil],
    [ok |-> TRUE, Delta |-> <<>>, Done |-> FALSE, TokensUsed |-> NoTokens, Error |-> "stream"] }
    \cup { [ok |-> TRUE, Delta |-> d, Done |-> dn, TokensUsed |-> NoTokens, Error |-> Nil] :
              d \in ReplyTexts, dn \in BOOLEAN }

NewJudgeCollector == [NewStreamCollector EXCEPT !.Content = <<>>]

\* What the function handed to g.Go in evaluateWithJudges returns.
JudgeTaskReturnsError(r) == r.Error

JudgeTaskReturn(r) == Nil

\* The worker result the judges are asked about.
JudgedWorker ==
  [WorkerResult EXCEPT !.WorkerID = WorkerID(1), !.Content = "x"]

JudgeProviderLists == UNION { [1..n -> ProviderRefs] : n \in 1..MaxJudges }

\* The configurations of the judge batch: score_top1 with at least one
\* judge, each judge with a provider reference the registry holds or not.
JudgeConfigs ==
  { [Config(<<"p1">>, 0, "score_top1", 0) EXCEPT
       !.Judges = [j \in 1..Len(ps) |-> [ID |-> JudgeID(j), Provider |-> ps[j]]]] :
    ps \in JudgeProviderLists }

NoBatch == [results |-> <<>>, err |-> Nil]

\* ------------------------------------------------- configuration loading
\* A configuration as the file gives it: the provider map (a set of named
\* entries), the workers with their temperature in tenths, the judges and
\* the consensus section.
ProviderEntry(kind, model, baseURL, host) ==
  [Name |-> "p1", Kind |-> kind, Model |-> model, BaseURL |-> baseURL, Host |-> host]

ProviderMaps ==
  { {},
    {ProviderEntry("openai", "m", "u", "")},
    {ProviderEntry("openai", "m", "", "")},
    {ProviderEntry("ollama", "m", "", "h")},
    {ProviderEntry("ollama", "m", "", "")},
    {ProviderEntry("", "m", "u", "")},
    {ProviderEntry("openai", "", "u", "")},
    {ProviderEntry("azure", "m", "u", "")} }

FileWorker(id, provider, temperature) ==
  [ID |-> id, Provider |-> provider, Temperature |-> temperature]

FileWorkerLists ==
  { <<>>,
    <<FileWorker("w1", "p1", 0)>>,
    <<FileWorker("w1", "p1", 7), FileWorker("w2", "p1", 20)>>,
    <<FileWorker("w1", "p1", 7), FileWorker("w1", "p1", 7)>>,
    <<FileWorker("", "p1", 7)>>,
    <<FileWorker("w1", "p1", 7), FileWorker("w2", "", 7)>>,
    <<FileWorker("w1", "ghost", 7), FileWorker("w2", "p1", 7)>>,
    <<FileWorker("w1", "p1", 21)>>,
    <<FileWorker("w1", "p1", 7), FileWorker("w2", "p1", -1)>> }

FileJudge(id, provider) == [ID |-> id, Provider |-> provider]

FileJudgeLists ==
  { <<>>,
    <<FileJudge("j1", "p1")>>,
    <<FileJudge("", "p1")>>,
    <<FileJudge("j1", "")>>,
    <<FileJudge("j1", "ghost")>> }

FileAlgorithms == Algorithms \cup {""}

FileConfig(providers, workers, judges, algorithm) ==
  [Providers |-> providers, Workers |-> workers, Judges |-> judges,
   Algorithm |-> algorithm, MinScore |-> 0]

FileConfigs ==
  { FileConfig(pm, ws, js, alg) :
      pm \in ProviderMaps, ws \in FileWorkerLists, js \in FileJudgeLists,
      alg \in FileAlgorithms }

\* setDefaults: an absent algorithm becomes majority, an absent worker
\* temperature 0.7.
setDefaults(c) ==
  [c EXCEPT !.Algorithm = IF @ = "" THEN "majority" ELSE @,
            !.Workers = [i \in 1..Len(@) |->
                           [@[i] EXCEPT !.Temperature = IF @ = 0 THEN 7 ELSE @]]]

HasProvider(c, name) == \E p \in c.Providers : p.Name = name

validateWorker(c, worker) ==
  IF worker.ID = "" THEN "worker ID cannot be empty"
  ELSE IF worker.Provider = "" THEN "worker must specify a provider"
  ELSE IF ~HasProvider(c, worker.Provider) THEN "worker references unknown provider"
  ELSE IF worker.Temperature < 0 \/ worker.Temperature > 20
    THEN "worker temperature must be between 0 and 2"
  ELSE Nil

validateJudge(c, judge) ==
  IF judge.ID = "" THEN "judge ID cannot be empty"
  ELSE IF judge.Provider = "" THEN "judge must specify a provider"
  ELSE IF ~HasProvider(c, judge.Provider) THEN "judge references unknown provider"
  ELSE Nil

validateProvider(provider) ==
  IF provider.Kind = "" THEN "provider must specify a kind"
  ELSE IF provider.Model = "" THEN "provider must specify a model"
  ELSE IF provider.Kind \in {"openai", "anthropic"}
    THEN (IF provider.BaseURL = "" THEN "provider must specify base_url" ELSE Nil)
  ELSE IF provider.Kind = "ollama"
    THEN (IF provider.Host = "" THEN "provider of kind ollama must specify host" ELSE Nil)
  ELSE "unsupported provider kind"

\* The first error of a loop over a list, Nil when no entry fails.
RECURSIVE FirstError(_)
FirstError(errs) ==
  IF Len(errs) = 0 THEN Nil
  ELSE IF Head(errs) # Nil THEN Head(errs)
  ELSE FirstError(Tail(errs))

\* The loop over the provider map returns at the first entry that fails.
ProviderError(c) ==
  IF \E p \in c.Providers : validateProvider(p) # Nil
    THEN validateProvider(CHOOSE p \in c.Providers : validateProvider(p) # Nil)
    ELSE Nil

anyAlgorithm == FileAlgorithms

validAlgorithms == {"majority", "score_top1", "embedding_cluster", "referee"}

validate(c) ==
  IF c.Providers = {} THEN "at least one provider must be configured"
  ELSE IF Len(c.Workers) = 0 THEN "at least one worker must be configured"
  ELSE IF FirstError([i \in 1..Len(c.Workers) |-> validateWorker(c, c.Workers[i])]) # Nil
    THEN FirstError([i \in 1..Len(c.Workers) |-> validateWorker(c, c.Workers[i])])
  ELSE IF FirstError([j \in 1..Len(c.Judges) |-> validateJudge(c, c.Judges[j])]) # Nil
    THEN FirstError([j \in 1..Len(c.Judges) |-> validateJudge(c, c.Judges[j])])
  ELSE IF ProviderError(c) # Nil THEN ProviderError(c)
  ELSE IF c.Algorithm \notin validAlgorithms THEN "invalid consensus algorithm"
  ELSE Nil

\* The configuration the runner holds when it is built from c.
RunnerConfig(c) ==
  [Workers |-> [i \in 1..Len(c.Workers) |->
                  [ID |-> c.Workers[i].ID, Provider |-> c.Workers[i].Provider]],
   Judges |-> [j \in 1..Len(c.Judges) |-> [ID |-> c.Judges[j].ID]],
   Algorithm |-> c.Algorithm, MinScore |-> c.MinScore]

\* NewRunner creates every configured provider and fails when one cannot be
\* created; the registry then holds the provider named p1.
NewRunnerOk(c) == c.Providers = {ProviderEntry("openai", "m", "u", "")}

\* ------------------------------------------------------ editor context hub

\* The diagnostics the context keeps.
MaxDiagnostics == 10

\* The links (websocket connections of editor extensions) and the readers
\* (callers of GetContext) that are followed.
Links == {"l1", "l2"}

Readers == {"r1", "r2"}

\* The holders of heap objects: the hub's shared context, and each reader for
\* the objects GetContext allocated for it.
Owners == {"hub"} \cup Readers

\* A key that is missing from a message's data, or whose value has not the
\* type the type assertion asks for.
NoField == "<absent>"

\* What a holder of a snapshot writes into it.
Edited == <<"edited", 0>>

\* One frame as read from the socket: decodable says whether it is JSON of
\* a Message; Type is its tag, file, root and open_files the entries of its
\* data (an element of open_files that is no string is NoField), tag is the
\* payload that tells two messages apart (the selected text, the diagnostic's
\* message).
Frame(decodable, type, file, root, files, tag) ==
  [decodable |-> decodable, Type |-> type, file |-> file, root |-> root,
   open_files |-> files, tag |-> tag]

FrameOf(kind, tag) ==
  CASE kind = "selA" -> Frame(TRUE, "selection", "A", NoField, NoField, tag)
    [] kind = "selB" -> Frame(TRUE, "selection", "B", NoField, NoField, tag)
    [] kind = "selNoFile" -> Frame(TRUE, "selection", NoField, NoField, NoField, tag)
    [] kind = "fileA" -> Frame(TRUE, "fileChange", "A", NoField, NoField, tag)
    [] kind = "fileB" -> Frame(TRUE, "fileChange", "B", NoField, NoField, tag)
    [] kind = "fileNone" -> Frame(TRUE, "fileChange", NoField, NoField, NoField, tag)
    [] kind = "diag" -> Frame(TRUE, "diagnostic", "A", NoField, NoField, tag)
    [] kind = "ws" -> Frame(TRUE, "workspace", NoField, "/w", <<"A", "B">>, tag)
    [] kind = "wsRoot" -> Frame(TRUE, "workspace", NoField, "/w", NoField, tag)
    [] kind = "wsMixed" -> Frame(TRUE, "workspace", NoField, NoField, <<NoField, "B">>, tag)
    [] kind = "unknown" -> Frame(TRUE, "ping", "B", "/x", <<"B">>, tag)
    [] kind = "garbage" -> Frame(FALSE, "selection", "B", NoField, NoField, tag)

\* The frames a link sends, one per kind named in the template; the payload of
\* the k-th frame of link l is <<l, k>>.
Script(l, template) == [k \in 1..Len(template) |-> FrameOf(template[k], <<l, k>>)]

\* A burst of diagnostics from one link.
Burst(l) == Script(l, [k \in 1..MaxDiagFrames |-> "diag"])

\* What the two links send while one reader takes a snapshot.
TemplatePairs ==
  { << <<"selA", "fileB">>, <<"diag">> >>,
    << <<"selA", "fileA">>, <<"selB">> >>,
    << <<"selB", "fileNone">>, <<"ws">> >>,
    << <<"selA">>, <<"fileB", "selNoFile">> >>,
    << <<"diag", "ws">>, <<"unknown", "selA">> >>,
    << <<"garbage", "wsMixed">>, <<"wsRoot", "diag">> >>,
    << <<"ws", "wsMixed">>, <<"fileA">> >>,
    << <<"selNoFile", "fileB">>, <<>> >>,
    << <<"unknown">>, <<"garbage">> >>,
    << <<"fileB", "selA">>, <<"unknown", "fileA">> >> }

\* What the two links send while two readers each take a snapshot.
SharedTemplatePairs ==
  { << <<"selA">>, <<"fileB">> >>,
    << <<"diag">>, <<"ws">> >>,
    << <<"selB", "diag">>, <<>> >> }

\* One arrangement of links and readers: the frames each link will send and
\* the readers that will call GetContext.
Scenario(t1, t2, readers) ==
  [script |-> [l \in Links |-> IF l = "l1" THEN Script(l, t1) ELSE Script(l, t2)],
   readers |-> readers]

Scenarios ==
  { Scenario(p[1], p[2], {"r1"}) : p \in TemplatePairs }
    \cup { Scenario(p[1], p[2], Readers) : p \in SharedTemplatePairs }
    \cup { [script |-> [l \in Links |-> Burst(l)], readers |-> {}] }

\* The zero SelectionMessage.
NoSelection == [File |-> "", Text |-> <<"", 0>>]

\* An IDEContext: its two strings, and its selection pointer and two slices
\* as the owner of the object they refer to (Nil for the nil pointer).
IDEContext(activeFile, root, selection, diagnostics, openFiles) ==
  [ActiveFile |-> activeFile, WorkspaceRoot |-> root, Selection |-> selection,
   Diagnostics |-> diagnostics, OpenFiles |-> openFiles]

\* NewServer's context: &IDEContext{}.
NewIDEContext == IDEContext("", "", Nil, "hub", "hub")

\* The objects behind the pointers and slices of every IDEContext.
NewHeap ==
  [sel |-> [o \in Owners |-> NoSelection],
   diag |-> [o \in Owners |-> <<>>],
   files |-> [o \in Owners |-> <<>>]]

\* A context together with the heap its pointers refer into.
Memory(c, h) == [ctx |-> c, heap |-> h]

\* What a holder of context c reads through it.
View(c, h) ==
  [ActiveFile |-> c.ActiveFile,
   WorkspaceRoot |-> c.WorkspaceRoot,
   hasSelection |-> c.Selection # Nil,
   Selection |-> IF c.Selection = Nil THEN NoSelection ELSE h.sel[c.Selection],
   Diagnostics |-> h.diag[c.Diagnostics],
   OpenFiles |-> h.files[c.OpenFiles]]

\* json.Marshal of the data and json.Unmarshal into a SelectionMessage: a
\* missing or non-string file leaves File empty.
DecodeSelection(msg) ==
  [File |-> IF msg.file = NoField THEN "" ELSE msg.file, Text |-> msg.tag]

\* The same into a DiagnosticMessage.
DecodeDiagnostic(msg) ==
  [File |-> IF msg.file = NoField THEN "" ELSE msg.file, Message |-> msg.tag]

\* The elements of an open_files list that are strings.
Strings(files) == SelectSeq(files, LAMBDA f : f # NoField)

EvictNewest(diagnostics) ==
  IF Len(diagnostics) > MaxDiagnostics
    THEN SubSeq(diagnostics, 1, Len(diagnostics) - 1) ELSE diagnostics

\* if len(Diagnostics) > 10 { Diagnostics = Diagnostics[1:] }
Evict(diagnostics) ==
  IF Len(diagnostics) > MaxDiagnostics THEN Tail(diagnostics) ELSE diagnostics

NeverStale(c, h) == FALSE

\* The selection is present and belongs to another file than the active one.
StaleSelection(c, h) ==
  c.Selection # Nil /\ h.sel[c.Selection].File # c.ActiveFile

processFirstAnyType(msg, m) ==
  Memory([m.ctx EXCEPT !.Selection = "hub"],
         [m.heap EXCEPT !.sel["hub"] = DecodeSelection(msg)])

\* processMessage, the first assignment of the case of msg.Type.
processFirst(msg, m) ==
  CASE msg.Type = "selection" ->
         Memory([m.ctx EXCEPT !.Selection = "hub"],
                [m.heap EXCEPT !.sel["hub"] = DecodeSelection(msg)])
    [] msg.Type = "diagnostic" ->
         Memory(m.ctx,
                [m.heap EXCEPT !.diag[m.ctx.Diagnostics] =
                                  Append(@, DecodeDiagnostic(msg))])
    [] msg.Type = "fileChange" ->
         IF msg.file # NoField
           THEN Memory([m.ctx EXCEPT !.ActiveFile = msg.file], m.heap)
           ELSE m
    [] msg.Type = "workspace" ->
         IF msg.root # NoField
           THEN Memory([m.ctx EXCEPT !.WorkspaceRoot = msg.root], m.heap)
           ELSE m
    [] OTHER -> m

\* processMessage, the rest of the case of msg.Type.
processSecond(msg, m) ==
  CASE msg.Type = "selection" ->
         Memory([m.ctx EXCEPT !.ActiveFile = m.heap.sel[m.ctx.Selection].File],
                m.heap)
    [] msg.Type = "diagnostic" ->
         Memory(m.ctx, [m.heap EXCEPT !.diag[m.ctx.Diagnostics] = Evict(@)])
    [] msg.Type = "fileChange" ->
         IF StaleSelection(m.ctx, m.heap)
           THEN Memory([m.ctx EXCEPT !.Selection = Nil], m.heap)
           ELSE m
    [] msg.Type = "workspace" ->
         IF msg.open_files # NoField
           THEN Memory([m.ctx EXCEPT !.OpenFiles = "hub"],
                       [m.heap EXCEPT !.files["hub"] = Strings(msg.open_files)])
           ELSE m
    [] OTHER -> m

GetContextAlias(r, m) == m

\* GetContext: a new IDEContext for reader r with the two strings, a new
\* open-file array and a new diagnostics array with the elements copied, and
\* a new SelectionMessage with the fields copied when there is a selection.
GetContext(r, m) ==
  Memory(IDEContext(m.ctx.ActiveFile, m.ctx.WorkspaceRoot,
                    IF m.ctx.Selection # Nil THEN r ELSE Nil, r, r),
         [m.heap EXCEPT
            !.files[r] = m.heap.files[m.ctx.OpenFiles],
            !.sel[r] = IF m.ctx.Selection # Nil THEN m.heap.sel[m.ctx.Selection] ELSE @,
            !.diag[r] = m.heap.diag[m.ctx.Diagnostics]])

\* The holder of snapshot c writes through it: the selection's text, every
\* diagnostic's message and every open file's name.
Scribble(c, h) ==
  [h EXCEPT
     !.sel = IF c.Selection # Nil THEN [@ EXCEPT ![c.Selection].Text = Edited] ELSE @,
     !.diag[c.Diagnostics] = [k \in 1..Len(@) |-> [@[k] EXCEPT !.Message = Edited]],
     !.files[c.OpenFiles] = [k \in 1..Len(@) |-> "edited"]]

\* The read/write lock s.mu: the link whose processMessage holds the write
\* side, and the readers that hold the read side.
NewMutex == [writer |-> Nil, readers |-> {}]

CanLock(m) == m.writer = Nil /\ m.readers = {}

CanRLockAlways(m) == TRUE

CanRLock(m) == m.writer = Nil

\* --------------------------------------------------------- hub membership

\* The select of the broadcast loop,
\*   select { case <-time.After(10 * time.Second): ...  default: ... }
\* makes the timer when it is evaluated, so the timer's channel is not ready
\* then, and a select with a default case does not wait.
TimeAfterReady == FALSE

RegisteredAlways(conn, connections) == TRUE

\* _, ok := s.connections[conn]
Registered(conn, connections) == conn \in connections

\* s.connections[conn] = true
Insert(connections, conn) == connections \cup {conn}

KeepEntry(connections, conn) == connections

\* delete(s.connections, conn)
Delete(connections, conn) == connections \ {conn}

AfterVisitStopsOnFailure(todo, conn, failed) == IF failed THEN {} ELSE todo \ {conn}

\* for conn := range s.connections: the entries still to visit after conn;
\* deleting the entry just visited does not disturb the iteration.
AfterVisit(todo, conn, failed) == todo \ {conn}

\* The hub loop at one point of run; conn is the connection it has in hand,
\* msg the broadcast it delivers, todo the connections the range has still to
\* visit, start the connections registered when the broadcast was received
\* and failed those it has evicted since.
HubAt(at) == [pc |-> at, conn |-> Nil, msg |-> 0, todo |-> {}, start |-> {}, failed |-> {}]

\* for s.running: the loop goes on to its select, or run returns.
LoopTest(r) == HubAt(IF r THEN "select" ELSE "exited")

\* len(s.connections) as IsConnected may read it: IsConnected holds s.mu,
\* which run never takes, so the read races with an insertion or a deletion
\* that run is making and sees the count before or after it.
RacyLen(connections, h) ==
  {Cardinality(connections)}
    \cup (IF h.pc = "insert" /\ h.conn \notin connections
            THEN {Cardinality(connections) + 1} ELSE {})
    \cup (IF h.pc \in {"remove", "evict"} /\ h.conn \in connections
            THEN {Cardinality(connections) - 1} ELSE {})

IsConnectedNonNegative(n) == n >= 0

\* return len(s.connections) > 0
IsConnected(n) == n > 0

\* What the hub has done for a link: register and unregister requests
\* received and applied, removals from the membership set, calls of Close,
\* and the removals that were evictions by a broadcast.
NotApplied == [reg |-> 0, unreg |-> 0, removed |-> 0, closes |-> 0, evicted |-> 0]

\* IsConnected has not been called.  Of a call: what it returned, whether run
\* was changing the membership set meanwhile, the links that were registered
\* then, and the links that had been registered until then.
NoAnswer == [called |-> FALSE, result |-> FALSE, stable |-> TRUE, members |-> {}, ever |-> {}]

\* SendDiff at one point, and the number of broadcasts asked for so far.
SenderAt(at, n) == [pc |-> at, n |-> n]

\* --------------------------------------------------------- workspace port

\* port := 8123 + (hash % 77), hash = hash*31 + int(c), % 2147483647.
BasePort == 8123
PortSpan == 77
HashFactor == 31
HashModulus == 2147483647

\* The two texts of generateWorkspacePort / simpleHash in the source: the one
\* of cmd/devgru/main.go reduces the accumulator in every round, the other
\* (part_016) does not.
Versions == {"main.go", "part_016"}

\* The widths of Go's int: 64 bits, or 32 bits on a 32-bit build.
Widths == {32, 64}

\* An int is kept as its two's complement bits, in 16-bit limbs with the least
\* significant first.
LimbBase == 2^16

Limbs(bits) == bits \div 16

Zero(bits) == [i \in 1..Limbs(bits) |-> 0]

\* The limbs from the i-th on of x * k + carry, wrapped to the width of x.
RECURSIVE MulAddFrom(_, _, _, _)
MulAddFrom(x, k, carry, i) ==
  IF i > Len(x) THEN <<>>
  ELSE LET t == x[i] * k + carry
       IN <<t % LimbBase>> \o MulAddFrom(x, k, t \div LimbBase, i + 1)

\* x * k + c in Go's int arithmetic: the result wraps around.
MulAdd(x, k, c) == MulAddFrom(x, k, c, 1)

\* x < 0.
IsNegative(x) == x[Len(x)] >= LimbBase \div 2

\* -x in Go's int arithmetic: the minimum int is its own negation.
Negate(x) == MulAdd([i \in 1..Len(x) |-> LimbBase - 1 - x[i]], 1, 1)

\* a + b modulo m, for 0 <= a, b < m, without leaving 32 bits.
AddMod(a, b, m) == IF a >= m - b THEN a - (m - b) ELSE a + b

\* r * 2^n modulo m, for 0 <= r < m, by doubling.
RECURSIVE ShiftMod(_, _, _)
ShiftMod(r, n, m) ==
  IF n = 0 \/ r = 0 THEN r ELSE ShiftMod(AddMod(r, r, m), n - 1, m)

\* The unsigned number of the limbs of u from the i-th down, after r,
\* modulo m.
RECURSIVE UModFrom(_, _, _, _)
UModFrom(u, m, i, r) ==
  IF i = 0 THEN r
  ELSE UModFrom(u, m, i - 1, AddMod(ShiftMod(r, 16, m), u[i] % m, m))

\* The limbs of u read as an unsigned number, modulo m.
UMod(u, m) == UModFrom(u, m, Len(u), 0)

\* x % m as Go computes it: the remainder has the sign of x.
GoRem(x, m) == IF IsNegative(x) THEN 0 - UMod(Negate(x), m) ELSE UMod(x, m)

\* The int of the given width with value r, for -2^31 < r < 2^31.
RECURSIVE FromInt(_, _)
FromInt(r, bits) ==
  IF r < 0 THEN Negate(FromInt(0 - r, bits))
  ELSE [i \in 1..Limbs(bits) |->
          IF i = 1 THEN r % LimbBase ELSE IF i = 2 THEN r \div LimbBase ELSE 0]

\* simpleHash, one round of the loop for the rune c.
simpleHashRound(version, hash, c) ==
  IF version = "main.go"
    THEN FromInt(GoRem(MulAdd(hash, HashFactor, c), HashModulus), 16 * Len(hash))
    ELSE MulAdd(hash, HashFactor, c)

\* simpleHash after the loop: if hash < 0 { hash = -hash }.
simpleHashReturn(hash) == IF IsNegative(hash) THEN Negate(hash) ELSE hash

\* generateWorkspacePort: port := 8123 + (hash % 77).
generateWorkspacePort(hash) == BasePort + GoRem(hash, PortSpan)

\* The runes of the paths: '/', 'a', 'z'.
Runes == {47, 97, 122}

\* The working directories: every string of up to MaxPathLen of the runes,
\* and "/home/user/project", "/majjyvffaakqqsrj" and "/ugquyxtwle".
Paths ==
  UNION { [1..n -> Runes] : n \in 0..MaxPathLen }
    \cup { <<47, 104, 111, 109, 101, 47, 117, 115, 101, 114, 47, 112, 114, 111, 106,
             101, 99, 116>>,
           <<47, 109, 97, 106, 106, 121, 118, 102, 102, 97, 97, 107, 113, 113, 115,
             114, 106>>,
           <<47, 117, 103, 113, 117, 121, 120, 116, 119, 108, 101>>,
           <<47, 128512>> }

\* ---- the editor extension's side of the port (extension.ts)

\* A Number holds 53 significant bits.
SignificandBits == 53

\* The Number 0.  A Number of the extension's hash is a whole number that is
\* never negative; it is kept exactly, as 16-bit limbs with the least
\* significant first.
NumberZero == Zero(128)

\* s.charCodeAt(i) for every i: the UTF-16 code units of the path, a code
\* point above 0xFFFF being a pair of surrogates.
RECURSIVE CodeUnits(_)
CodeUnits(path) ==
  IF path = <<>> THEN <<>>
  ELSE LET c == Head(path)
       IN (IF c < LimbBase THEN <<c>>
           ELSE <<55296 + ((c - LimbBase) \div 1024), 56320 + ((c - LimbBase) % 1024)>>)
            \o CodeUnits(Tail(path))

\* The bit of weight 2^i of x.
Bit(x, i) == (x[(i \div 16) + 1] \div (2^(i % 16))) % 2

\* The number of bits of x up to its highest set bit.
BitLen(x) ==
  LET S == {i \in 1..16 * Len(x) : Bit(x, i - 1) = 1}
  IN IF S = {} THEN 0 ELSE CHOOSE i \in S : \A j \in S : j <= i

\* x with its s lowest bits cleared.
ClearLow(x, s) ==
  [j \in 1..Len(x) |->
     LET t == s - 16 * (j - 1)
     IN IF t <= 0 THEN x[j] ELSE IF t >= 16 THEN 0 ELSE x[j] - (x[j] % (2^t))]

\* x + v * 2^(16 * (j - 1)).
RECURSIVE AddAt(_, _, _)
AddAt(x, j, v) ==
  IF v = 0 \/ j > Len(x) THEN x
  ELSE AddAt([x EXCEPT ![j] = (@ + v) % LimbBase], j + 1, (x[j] + v) \div LimbBase)

\* Some bit of x below the one of weight 2^s is set.
AnyBelow(x, s) == \E i \in 0..(s - 1) : Bit(x, i) = 1

\* The Number nearest to the whole number x, the even one of two equally
\* near: the result of an arithmetic operation whose exact value is x.
RoundToNumber(x) ==
  LET s == BitLen(x) - SignificandBits
  IN IF s <= 0 THEN x
     ELSE IF Bit(x, s - 1) = 1 /\ (AnyBelow(x, s - 1) \/ Bit(x, s) = 1)
            THEN AddAt(ClearLow(x, s), (s \div 16) + 1, 2^(s % 16))
            ELSE ClearLow(x, s)

\* The extension's simpleHash, one round: hash = hash * 31 + s.charCodeAt(i),
\* the product and the sum being rounded each.
extSimpleHashRound(hash, c) ==
  RoundToNumber(MulAdd(RoundToNumber(MulAdd(hash, HashFactor, 0)), 1, c))

\* calculateWorkspacePort: 8123 + (hash % 77), of Math.abs(hash), which is
\* hash as it is never negative.
calculateWorkspacePort(hash) == BasePort + UMod(hash, PortSpan)

\* config: the runner's configuration.  pc, wpc, collector, results,
\* deadlineFired, groupErr, result, runErr: one call of Run and its worker
\* tasks; overtaken records that a task published its slot before a task of
\* an earlier worker did.  cpc, cworkers, creplies, cout: one call of
\* runConsensus on its own, with its arguments and what it handed back.
\* vcfg, vpc, verr: one load of a configuration file, with the configuration
\* as read (then with its defaults) and what validate returned.
\* jpc, jwpc, jcollector, jslots, jdeadline, jgroupErr, jout, jworker: one
\* call of evaluateWithJudges for one worker with its judge tasks, the run
\* deadline as they see it, what the call returned and the worker result
\* scoreTop1Consensus then holds.
VARIABLES config, pc, wpc, collector, results, deadlineFired, groupErr,
          result, runErr, overtaken, cpc, cworkers, creplies, cout,
          vcfg, vpc, verr,
          jpc, jwpc, jcollector, jslots, jdeadline, jgroupErr, jout, jworker,
          script, lpc, lmsg, ectx, heap, mu, rpc, snap, returned, before, last, dlog,
          conns, hub, lk, sock, sender, got, applied, connected, running,
          hsrc, hbits, hpath, hidx, hhash, hport, hpc, eidx, ehash, eport, epc,
          responseChan, chClosed, ppc, pending, final, scanned, streamCollector,
          askDone

runVars == <<pc, wpc, collector, results, deadlineFired, groupErr, result, runErr,
             overtaken>>

engineVars == <<cpc, cworkers, creplies, cout>>

loadVars == <<vcfg, vpc, verr>>

judgeVars == <<jpc, jwpc, jcollector, jslots, jdeadline, jgroupErr, jout, jworker>>

ctxVars == <<script, lpc, lmsg, ectx, heap, mu, rpc, snap, returned, before, last, dlog>>

linkVars == <<conns, hub, lk, sock, sender, got, applied, connected, running>>

portVars == <<hsrc, hbits, hpath, hidx, hhash, hport, hpc, eidx, ehash, eport, epc>>

streamVars == <<responseChan, chClosed, ppc, pending, final, scanned, streamCollector,
                askDone>>

hubVars == <<ctxVars, linkVars, portVars, streamVars>>

vars == <<config, runVars, engineVars, loadVars, judgeVars, hubVars>>

NumWorkers == Len(config.Workers)

WorkerIdx == 1..NumWorkers

CtxNeverDone == FALSE

\* The context the worker tasks see: the run deadline, or the errgroup's
\* cancellation after a task returned an error.
CtxDone == deadlineFired \/ groupErr # Nil

RunIdle(at) ==
  /\ pc = at
  /\ wpc = [i \in 1..Len(config.Workers) |-> "new"]
  /\ collector = [i \in 1..Len(config.Workers) |-> NewStreamCollector]
  /\ results = <<>>
  /\ deadlineFired = FALSE
  /\ groupErr = Nil
  /\ result = RunResult
  /\ runErr = Nil
  /\ overtaken = FALSE

EngineIdle(at) ==
  /\ cpc = at
  /\ cworkers = <<>>
  /\ creplies = <<>>
  /\ cout = NoOutcome

LoadIdle(at) ==
  /\ vpc = at
  /\ vcfg = FileConfig({}, <<>>, <<>>, "")
  /\ verr = Nil

JudgesIdle(at) ==
  /\ jpc = at
  /\ jwpc = [j \in 1..Len(config.Judges) |-> "new"]
  /\ jcollector = [j \in 1..Len(config.Judges) |-> NewJudgeCollector]
  /\ jslots = <<>>
  /\ jdeadline = FALSE
  /\ jgroupErr = Nil
  /\ jout = NoBatch
  /\ jworker = JudgedWorker

\* A link that holds no message.
NoFrame == Frame(FALSE, "", NoField, NoField, NoField, <<"", 0>>)

\* What reader r holds before GetContext has returned to it.
NoSnapshot(r) == IDEContext("", "", Nil, r, r)

NoReturn == [present |-> FALSE, view |-> View(NewIDEContext, NewHeap),
             committed |-> View(NewIDEContext, NewHeap)]

\* No message has been applied yet: the context is NewServer's.
NoneApplied ==
  [present |-> FALSE, link |-> "", msg |-> NoFrame,
   pre |-> View(NewIDEContext, NewHeap), post |-> View(NewIDEContext, NewHeap)]

ContextIdle(at) ==
  /\ script = [l \in Links |-> <<>>]
  /\ lpc = [l \in Links |-> at]
  /\ lmsg = [l \in Links |-> NoFrame]
  /\ ectx = NewIDEContext
  /\ heap = NewHeap
  /\ mu = NewMutex
  /\ rpc = [r \in Readers |-> at]
  /\ snap = [r \in Readers |-> NoSnapshot(r)]
  /\ returned = [r \in Readers |-> NoReturn]
  /\ before = View(NewIDEContext, NewHeap)
  /\ last = NoneApplied
  /\ dlog = <<>>

LinksIdle(at) ==
  /\ conns = {}
  /\ hub = HubAt(at)
  /\ lk = [l \in Links |-> at]
  /\ sock = [l \in Links |-> "open"]
  /\ sender = SenderAt(at, 0)
  /\ got = [l \in Links |-> {}]
  /\ applied = [l \in Links |-> NotApplied]
  /\ connected = NoAnswer
  /\ running = FALSE

PortIdle(at) ==
  /\ hsrc = "main.go"
  /\ hbits = 64
  /\ hpath = <<>>
  /\ hidx = 0
  /\ hhash = Zero(64)
  /\ hport = 0
  /\ hpc = at
  /\ eidx = 0
  /\ ehash = NumberZero
  /\ eport = 0
  /\ epc = at

\* No provider request is in flight.
StreamIdle(at) ==
  /\ responseChan = <<>>
  /\ chClosed = FALSE
  /\ ppc = at
  /\ pending = <<>>
  /\ final = FALSE
  /\ scanned = 0
  /\ streamCollector = NewStreamCollector
  /\ askDone = FALSE

\* The editor hub, the port computation and the provider client are not
\* running.
HubOff ==
  /\ ContextIdle("off") /\ LinksIdle("off") /\ PortIdle("off") /\ StreamIdle("off")

\* The runner is not running: no workers, no judges.
RunnerOff ==
  /\ config = RunnerConfig(FileConfig({}, <<>>, <<>>, ""))
  /\ RunIdle("off")
  /\ EngineIdle("off")
  /\ LoadIdle("off")
  /\ JudgesIdle("off")

Init ==
  /\ config \in Configs(RunJudgeCounts)
  /\ RunIdle("start")
  /\ EngineIdle("off")
  /\ LoadIdle("off")
  /\ JudgesIdle("off")
  /\ HubOff

\* Run up to g.Wait(): the result collection is made with one slot per
\* worker and one task per worker is launched.
RunStart ==
  /\ pc = "start"
  /\ pc' = "wait"
  /\ results' = [i \in WorkerIdx |-> WorkerResult]
  /\ wpc' = [i \in WorkerIdx |-> "idle"]
  /\ UNCHANGED <<config, hubVars, collector, deadlineFired, groupErr, result, runErr, overtaken,
                 engineVars, loadVars, judgeVars>>

\* The deadline of context.WithTimeout fires.
Timeout ==
  /\ pc \in {"wait", "consensus"}
  /\ ~deadlineFired
  /\ deadlineFired' = TRUE
  /\ UNCHANGED <<config, hubVars, pc, wpc, collector, results, groupErr, result, runErr,
                 overtaken, engineVars, loadVars, judgeVars>>

\* The task of worker i ends: it publishes its slot and returns to the group.
Finish(i, r) ==
  /\ results' = Publish(results, i, r)
  /\ wpc' = [wpc EXCEPT ![i] = "done"]
  /\ groupErr' = IF groupErr = Nil THEN TaskReturn(r) ELSE groupErr
  /\ overtaken' = (overtaken \/ \E k \in 1..(i - 1) : wpc[k] # "done")
  /\ UNCHANGED <<config, hubVars, pc, deadlineFired, result, runErr, engineVars, loadVars, judgeVars>>

\* runSingleWorker to the call of Collect: provider lookup and Ask.
WorkerStart(i) ==
  /\ wpc[i] = "idle"
  /\ IF config.Workers[i].Provider \notin Providers
       THEN Finish(i, FailedResult(config.Workers[i], "lookup")) /\ UNCHANGED collector
       ELSE \E askOk \in BOOLEAN :
              IF askOk
                THEN /\ wpc' = [wpc EXCEPT ![i] = "collect"]
                     /\ UNCHANGED <<config, hubVars, pc, collector, results, deadlineFired,
                                    groupErr, result, runErr, overtaken, engineVars, loadVars, judgeVars>>
                ELSE Finish(i, FailedResult(config.Workers[i], "ask"))
                       /\ UNCHANGED collector

\* Collect receives from the response channel.
WorkerRecv(i) ==
  /\ wpc[i] = "collect"
  /\ \E response \in Responses :
       /\ Len(collector[i].Content) + Len(response.Delta) <= MaxContentLen
       /\ LET sc == CollectRecv(collector[i], response)
          IN /\ collector' = [collector EXCEPT ![i] = sc]
             /\ IF sc.returned
                  THEN Finish(i, PopulateResult(config.Workers[i], sc))
                  ELSE UNCHANGED <<config, hubVars, pc, wpc, results, deadlineFired,
                                   groupErr, result, runErr, overtaken, engineVars, loadVars, judgeVars>>

\* Collect observes the cancellation.
WorkerCtxDone(i) ==
  /\ wpc[i] = "collect"
  /\ CtxDone
  /\ LET sc == CollectCtxDone(collector[i])
     IN /\ collector' = [collector EXCEPT ![i] = sc]
        /\ Finish(i, PopulateResult(config.Workers[i], sc))

\* g.Wait() returns: runWorkers hands the slots back (or the group's error),
\* Run stores them and computes the aggregate totals.
RunJoin ==
  /\ pc = "wait"
  /\ WaitReturns(wpc)
  /\ IF groupErr # Nil
       THEN /\ result' = [result EXCEPT !.Success = FALSE]
            /\ runErr' = "failed to run workers"
            /\ pc' = "done"
       ELSE /\ result' = calculateAggregateStats([result EXCEPT !.Workers = results])
            /\ runErr' = runErr
            /\ pc' = "consensus"
  /\ UNCHANGED <<config, hubVars, wpc, collector, results, deadlineFired, groupErr, overtaken,
                 engineVars, loadVars, judgeVars>>

\* runConsensus and the end of Run; creplies keeps the judge replies the
\* consensus step took.
RunConsensus ==
  /\ pc = "consensus"
  /\ \E replies \in ReplySpace(result.Workers, config) :
       LET out == runConsensus(result.Workers, config, replies)
       IN /\ result' = RunReturn(result, out.consensus, out.err)
          /\ runErr' = IF out.err # Nil THEN ConsensusFailed(out.err) ELSE Nil
          /\ creplies' = replies
  /\ pc' = "done"
  /\ UNCHANGED <<config, hubVars, wpc, collector, results, deadlineFired, groupErr, overtaken,
                 cpc, cworkers, cout, loadVars, judgeVars>>

Next ==
  \/ RunStart
  \/ Timeout
  \/ \E i \in WorkerIdx : WorkerStart(i)
  \/ \E i \in WorkerIdx : WorkerRecv(i)
  \/ \E i \in WorkerIdx : WorkerCtxDone(i)
  \/ RunJoin
  \/ RunConsensus

Spec == Init /\ [][Next]_vars

\* ------------------------------------------- the consensus engine alone
InitConsensus ==
  /\ config \in Configs(0..MaxJudges)
  /\ RunIdle("off")
  /\ cpc = "call"
  /\ cworkers \in { ws \in [1..Len(config.Workers) ->
                             UNION {WorkerOutcomes(w) : w \in Range(config.Workers)}] :
                      \A i \in 1..Len(config.Workers) :
                        ws[i] \in WorkerOutcomes(config.Workers[i]) }
  /\ creplies = <<>>
  /\ cout = NoOutcome
  /\ LoadIdle("off")
  /\ JudgesIdle("off")
  /\ HubOff

\* runConsensus is called on the worker results and returns.
ApplyConsensus ==
  /\ cpc = "call"
  /\ \E replies \in ReplySpace(cworkers, config) :
       /\ creplies' = replies
       /\ cout' = runConsensus(cworkers, config, replies)
  /\ cpc' = "returned"
  /\ UNCHANGED <<config, hubVars, cworkers, runVars, loadVars, judgeVars>>

NextConsensus == ApplyConsensus

SpecConsensus == InitConsensus /\ [][NextConsensus]_vars

\* ---------------------------------------- loading and an unvalidated run
\* A configuration file is read; the runner may also be built from the same
\* configuration directly, without the load.
InitValidate ==
  /\ vcfg \in FileConfigs
  /\ vpc = "file"
  /\ verr = Nil
  /\ config = RunnerConfig(vcfg)
  /\ RunIdle("off")
  /\ EngineIdle("new")
  /\ JudgesIdle("off")
  /\ HubOff

\* postProcess: the defaults, then validate.
PostProcess ==
  /\ vpc = "file"
  /\ vcfg' = setDefaults(vcfg)
  /\ verr' = validate(setDefaults(vcfg))
  /\ vpc' = "processed"
  /\ UNCHANGED <<config, hubVars, runVars, engineVars, judgeVars>>

\* Run on a runner built from the configuration as given, up to the call of
\* runConsensus: the workers have ended with one of their outcomes.
WorkersRan ==
  /\ cpc = "new"
  /\ NewRunnerOk(vcfg)
  /\ cworkers' \in { ws \in [1..Len(config.Workers) ->
                              UNION {WorkerOutcomes(w) : w \in Range(config.Workers)}] :
                       \A i \in 1..Len(config.Workers) :
                         ws[i] \in WorkerOutcomes(config.Workers[i]) }
  /\ cpc' = "call"
  /\ UNCHANGED <<config, hubVars, creplies, cout, runVars, loadVars, judgeVars>>

NextValidate == PostProcess \/ WorkersRan \/ ApplyConsensus

SpecValidate == InitValidate /\ [][NextValidate]_vars

\* --------------------------------------------- the judge batch of a worker
InitJudges ==
  /\ config \in JudgeConfigs
  /\ RunIdle("off")
  /\ EngineIdle("off")
  /\ LoadIdle("off")
  /\ JudgesIdle("call")
  /\ HubOff

JudgeIdx == 1..Len(config.Judges)

\* The context the judge tasks see: the run deadline, or the cancellation of
\* the judges' own errgroup after a task returned an error.
JudgeCtxDone == jdeadline \/ jgroupErr # Nil

\* evaluateWithJudges up to g.Wait(): one slot and one task per judge.
JudgesStart ==
  /\ jpc = "call"
  /\ jpc' = "wait"
  /\ jslots' = [j \in JudgeIdx |-> [JudgeID |-> "", WorkerID |-> "", Score |-> 0,
                                    Error |-> Nil]]
  /\ jwpc' = [j \in JudgeIdx |-> "idle"]
  /\ UNCHANGED <<config, hubVars, runVars, engineVars, loadVars, jcollector, jdeadline,
                 jgroupErr, jout, jworker>>

\* The run deadline fires before or during the batch.
JudgeTimeout ==
  /\ jpc \in {"call", "wait"}
  /\ ~jdeadline
  /\ jdeadline' = TRUE
  /\ UNCHANGED <<config, hubVars, runVars, engineVars, loadVars, jpc, jwpc, jcollector, jslots,
                 jgroupErr, jout, jworker>>

\* The task of judge j ends: it stores its result and returns to the group.
JudgeFinish(j, r) ==
  /\ jslots' = Publish(jslots, j, r)
  /\ jwpc' = [jwpc EXCEPT ![j] = "done"]
  /\ jgroupErr' = IF jgroupErr = Nil THEN JudgeTaskReturn(r) ELSE jgroupErr
  /\ UNCHANGED <<config, hubVars, runVars, engineVars, loadVars, jpc, jdeadline, jout, jworker>>

\* evaluateWithSingleJudge to the call of Collect: provider lookup and Ask.
JudgeStart(j) ==
  /\ jwpc[j] = "idle"
  /\ IF config.Judges[j].Provider \notin Providers
       THEN JudgeFinish(j, [JudgeResult(jworker, config.Judges[j]) EXCEPT
                              !.Error = "lookup"])
              /\ UNCHANGED jcollector
       ELSE \E askOk \in BOOLEAN :
              IF askOk
                THEN /\ jwpc' = [jwpc EXCEPT ![j] = "collect"]
                     /\ UNCHANGED <<config, hubVars, runVars, engineVars, loadVars, jpc,
                                    jcollector, jslots, jdeadline, jgroupErr, jout,
                                    jworker>>
                ELSE JudgeFinish(j, [JudgeResult(jworker, config.Judges[j]) EXCEPT
                                       !.Error = "ask"])
                       /\ UNCHANGED jcollector

\* Collect receives from the judge's response channel; the reply text comes
\* in one chunk.
JudgeRecv(j) ==
  /\ jwpc[j] = "collect"
  /\ \E response \in JudgeResponses :
       /\ Len(response.Delta) > 0 => Len(jcollector[j].Content) = 0
       /\ LET sc == CollectRecv(jcollector[j], response)
          IN /\ jcollector' = [jcollector EXCEPT ![j] = sc]
             /\ IF sc.returned
                  THEN JudgeFinish(j, JudgeResultFrom(jworker, config.Judges[j], sc))
                  ELSE UNCHANGED <<config, hubVars, runVars, engineVars, loadVars, jpc, jwpc,
                                   jslots, jdeadline, jgroupErr, jout, jworker>>

\* Collect observes the cancellation.
JudgeCollectCtxDone(j) ==
  /\ jwpc[j] = "collect"
  /\ JudgeCtxDone
  /\ LET sc == CollectCtxDone(jcollector[j])
     IN /\ jcollector' = [jcollector EXCEPT ![j] = sc]
        /\ JudgeFinish(j, JudgeResultFrom(jworker, config.Judges[j], sc))

\* g.Wait() returns, the failed evaluations are filtered out, and
\* scoreTop1Consensus stores the judge results and their average.
JudgesJoin ==
  /\ jpc = "wait"
  /\ WaitReturns(jwpc)
  /\ jout' = IF jgroupErr # Nil THEN [results |-> <<>>, err |-> jgroupErr]
             ELSE [results |-> validResults(jslots), err |-> Nil]
  /\ jworker' = IF jgroupErr # Nil THEN jworker
                ELSE [jworker EXCEPT
                        !.JudgeResults = validResults(jslots),
                        !.AverageScore = calculateAverageScore(validResults(jslots))]
  /\ jpc' = "returned"
  /\ UNCHANGED <<config, hubVars, runVars, engineVars, loadVars, jwpc, jcollector, jslots,
                 jdeadline, jgroupErr>>

NextJudges ==
  \/ JudgesStart
  \/ JudgeTimeout
  \/ \E j \in JudgeIdx : JudgeStart(j)
  \/ \E j \in JudgeIdx : JudgeRecv(j)
  \/ \E j \in JudgeIdx : JudgeCollectCtxDone(j)
  \/ JudgesJoin

SpecJudges == InitJudges /\ [][NextJudges]_vars

\* ------------------------------------------------- progress of the tasks
\* A Run with its worker tasks, or a judge batch with its judge tasks, under
\* the scheduling the runtime gives: the timer of context.WithTimeout fires,
\* every goroutine runs, Ask returns, a select whose ctx.Done() case is ready
\* takes it unless the channel case is taken first, and g.Wait() returns once
\* the tasks have.  Nothing is assumed of the provider's stream: a receive
\* from the response channel may never happen.
InitLive == Init \/ InitJudges

NextLive == Next \/ NextJudges

Fairness ==
  /\ WF_vars(RunStart)
  /\ WF_vars(Timeout)
  /\ \A i \in 1..MaxWorkers : WF_vars(i \in DOMAIN wpc /\ WorkerStart(i))
  /\ \A i \in 1..MaxWorkers : WF_vars(i \in DOMAIN wpc /\ WorkerCtxDone(i))
  /\ WF_vars(RunJoin)
  /\ WF_vars(RunConsensus)
  /\ WF_vars(JudgesStart)
  /\ WF_vars(JudgeTimeout)
  /\ \A j \in 1..MaxJudges : WF_vars(j \in DOMAIN jwpc /\ JudgeStart(j))
  /\ \A j \in 1..MaxJudges : WF_vars(j \in DOMAIN jwpc /\ JudgeCollectCtxDone(j))
  /\ WF_vars(JudgesJoin)

SpecLive == InitLive /\ [][NextLive]_vars /\ Fairness

\* ------------------------------------- the editor context and its readers
\* The links are connected and their handleMessages loops run; the readers
\* call GetContext once each and may then write into what they were given.
InitContext ==
  /\ RunnerOff
  /\ \E sc \in Scenarios :
       /\ script = sc.script
       /\ rpc = [r \in Readers |-> IF r \in sc.readers THEN "idle" ELSE "off"]
  /\ lpc = [l \in Links |-> "read"]
  /\ lmsg = [l \in Links |-> NoFrame]
  /\ ectx = NewIDEContext
  /\ heap = NewHeap
  /\ mu = NewMutex
  /\ snap = [r \in Readers |-> NoSnapshot(r)]
  /\ returned = [r \in Readers |-> NoReturn]
  /\ before = View(NewIDEContext, NewHeap)
  /\ last = NoneApplied
  /\ dlog = <<>>
  /\ LinksIdle("off")
  /\ PortIdle("off")
  /\ StreamIdle("off")

\* handleMessages: ReadMessage returns the next frame; one that is no JSON
\* Message is logged and skipped, any other goes to processMessage.
LinkRead(l) ==
  /\ lpc[l] = "read"
  /\ script[l] # <<>>
  /\ script' = [script EXCEPT ![l] = Tail(@)]
  /\ IF Head(script[l]).decodable
       THEN /\ lmsg' = [lmsg EXCEPT ![l] = Head(script[l])]
            /\ lpc' = [lpc EXCEPT ![l] = "lock"]
       ELSE UNCHANGED <<lmsg, lpc>>
  /\ UNCHANGED <<ectx, heap, mu, rpc, snap, returned, before, last, dlog>>
  /\ UNCHANGED <<config, runVars, engineVars, loadVars, judgeVars, linkVars, portVars, streamVars>>

\* handleMessages: the peer has closed, ReadMessage fails and the loop ends.
LinkReadFails(l) ==
  /\ lpc[l] = "read"
  /\ script[l] = <<>>
  /\ lpc' = [lpc EXCEPT ![l] = "closed"]
  /\ UNCHANGED <<script, lmsg, ectx, heap, mu, rpc, snap, returned, before, last, dlog>>
  /\ UNCHANGED <<config, runVars, engineVars, loadVars, judgeVars, linkVars, portVars, streamVars>>

\* processMessage: s.mu.Lock().
ProcessLock(l) ==
  /\ lpc[l] = "lock"
  /\ CanLock(mu)
  /\ mu' = [mu EXCEPT !.writer = l]
  /\ lpc' = [lpc EXCEPT ![l] = "first"]
  /\ before' = View(ectx, heap)
  /\ UNCHANGED <<script, lmsg, ectx, heap, rpc, snap, returned, last, dlog>>
  /\ UNCHANGED <<config, runVars, engineVars, loadVars, judgeVars, linkVars, portVars, streamVars>>

\* processMessage: the first assignment of the message's case.
ProcessFirst(l) ==
  /\ lpc[l] = "first"
  /\ LET m == processFirst(lmsg[l], Memory(ectx, heap))
     IN /\ ectx' = m.ctx
        /\ heap' = m.heap
  /\ lpc' = [lpc EXCEPT ![l] = "second"]
  /\ UNCHANGED <<script, lmsg, mu, rpc, snap, returned, before, last, dlog>>
  /\ UNCHANGED <<config, runVars, engineVars, loadVars, judgeVars, linkVars, portVars, streamVars>>

\* processMessage: the rest of the case, then the deferred s.mu.Unlock(); the
\* loop of handleMessages goes on to its next ReadMessage.
ProcessSecond(l) ==
  /\ lpc[l] = "second"
  /\ LET m == processSecond(lmsg[l], Memory(ectx, heap))
     IN /\ ectx' = m.ctx
        /\ heap' = m.heap
        /\ last' = [present |-> TRUE, link |-> l, msg |-> lmsg[l], pre |-> before,
                    post |-> View(m.ctx, m.heap)]
  /\ mu' = [mu EXCEPT !.writer = Nil]
  /\ lpc' = [lpc EXCEPT ![l] = "read"]
  /\ lmsg' = [lmsg EXCEPT ![l] = NoFrame]
  /\ dlog' = IF lmsg[l].Type = "diagnostic"
               THEN Append(dlog, DecodeDiagnostic(lmsg[l])) ELSE dlog
  /\ UNCHANGED <<script, rpc, snap, returned, before>>
  /\ UNCHANGED <<config, runVars, engineVars, loadVars, judgeVars, linkVars, portVars, streamVars>>

\* GetContext: s.mu.RLock().
GetContextRLock(r) ==
  /\ rpc[r] = "idle"
  /\ CanRLock(mu)
  /\ mu' = [mu EXCEPT !.readers = @ \cup {r}]
  /\ rpc' = [rpc EXCEPT ![r] = "copy"]
  /\ UNCHANGED <<script, lpc, lmsg, ectx, heap, snap, returned, before, last, dlog>>
  /\ UNCHANGED <<config, runVars, engineVars, loadVars, judgeVars, linkVars, portVars, streamVars>>

\* GetContext: the copy is made and returned, and the deferred s.mu.RUnlock().
GetContextReturn(r) ==
  /\ rpc[r] = "copy"
  /\ LET m == GetContext(r, Memory(ectx, heap))
     IN /\ snap' = [snap EXCEPT ![r] = m.ctx]
        /\ heap' = m.heap
        /\ returned' = [returned EXCEPT ![r] =
                          [present |-> TRUE, view |-> View(m.ctx, m.heap),
                           committed |-> last.post]]
  /\ mu' = [mu EXCEPT !.readers = @ \ {r}]
  /\ rpc' = [rpc EXCEPT ![r] = "has"]
  /\ UNCHANGED <<script, lpc, lmsg, ectx, before, last, dlog>>
  /\ UNCHANGED <<config, runVars, engineVars, loadVars, judgeVars, linkVars, portVars, streamVars>>

\* The caller of GetContext writes into the snapshot it holds.
SnapshotWrite(r) ==
  /\ rpc[r] = "has"
  /\ heap' = Scribble(snap[r], heap)
  /\ rpc' = [rpc EXCEPT ![r] = "edited"]
  /\ UNCHANGED <<script, lpc, lmsg, ectx, mu, snap, returned, before, last, dlog>>
  /\ UNCHANGED <<config, runVars, engineVars, loadVars, judgeVars, linkVars, portVars, streamVars>>

NextContext ==
  \/ \E l \in Links : LinkRead(l)
  \/ \E l \in Links : LinkReadFails(l)
  \/ \E l \in Links : ProcessLock(l)
  \/ \E l \in Links : ProcessFirst(l)
  \/ \E l \in Links : ProcessSecond(l)
  \/ \E r \in Readers : GetContextRLock(r)
  \/ \E r \in Readers : GetContextReturn(r)
  \/ \E r \in Readers : SnapshotWrite(r)

SpecContext == InitContext /\ [][NextContext]_vars

\* ------------------------------------------- the hub loop and its links
\* Start has launched run; no link has connected yet.
InitLinks ==
  /\ RunnerOff
  /\ ContextIdle("off")
  /\ PortIdle("off")
  /\ StreamIdle("off")
  /\ conns = {}
  /\ hub = HubAt("select")
  /\ lk = [l \in Links |-> "new"]
  /\ sock = [l \in Links |-> "open"]
  /\ sender = SenderAt("idle", 0)
  /\ got = [l \in Links |-> {}]
  /\ applied = [l \in Links |-> NotApplied]
  /\ connected = NoAnswer
  /\ running = TRUE

\* handleWebSocket: the upgrade succeeds and the handler blocks on
\* s.register <- conn.
Upgrade(l) ==
  /\ lk[l] = "new"
  /\ lk' = [lk EXCEPT ![l] = "registering"]
  /\ UNCHANGED <<conns, hub, sock, sender, got, applied, connected, running>>
  /\ UNCHANGED <<config, runVars, engineVars, loadVars, judgeVars, ctxVars, portVars, streamVars>>

\* handleWebSocket: the upgrade fails and the handler returns.
UpgradeFails(l) ==
  /\ lk[l] = "new"
  /\ lk' = [lk EXCEPT ![l] = "refused"]
  /\ UNCHANGED <<conns, hub, sock, sender, got, applied, connected, running>>
  /\ UNCHANGED <<config, runVars, engineVars, loadVars, judgeVars, ctxVars, portVars, streamVars>>

\* run: case conn := <-s.register.  The send of handleWebSocket completes
\* and it starts handleMessages.
HubRecvRegister(l) ==
  /\ hub.pc = "select"
  /\ lk[l] = "registering"
  /\ hub' = [hub EXCEPT !.pc = "insert", !.conn = l]
  /\ lk' = [lk EXCEPT ![l] = "reading"]
  /\ UNCHANGED <<conns, sock, sender, got, applied, connected, running>>
  /\ UNCHANGED <<config, runVars, engineVars, loadVars, judgeVars, ctxVars, portVars, streamVars>>

\* run: s.connections[conn] = true.
HubInsert ==
  /\ hub.pc = "insert"
  /\ conns' = Insert(conns, hub.conn)
  /\ applied' = [applied EXCEPT ![hub.conn].reg = @ + 1]
  /\ hub' = LoopTest(running)
  /\ UNCHANGED <<lk, sock, sender, got, connected, running>>
  /\ UNCHANGED <<config, runVars, engineVars, loadVars, judgeVars, ctxVars, portVars, streamVars>>

\* handleMessages: ReadMessage fails (the peer closed, or the hub closed the
\* connection), the loop ends and the deferred s.unregister <- conn blocks.
ReadFails(l) ==
  /\ lk[l] = "reading"
  /\ lk' = [lk EXCEPT ![l] = "unregistering"]
  /\ UNCHANGED <<conns, hub, sock, sender, got, applied, connected, running>>
  /\ UNCHANGED <<config, runVars, engineVars, loadVars, judgeVars, ctxVars, portVars, streamVars>>

\* run: case conn := <-s.unregister.  handleMessages returns.
HubRecvUnregister(l) ==
  /\ hub.pc = "select"
  /\ lk[l] = "unregistering"
  /\ hub' = [hub EXCEPT !.pc = "remove", !.conn = l]
  /\ lk' = [lk EXCEPT ![l] = "gone"]
  /\ UNCHANGED <<conns, sock, sender, got, applied, connected, running>>
  /\ UNCHANGED <<config, runVars, engineVars, loadVars, judgeVars, ctxVars, portVars, streamVars>>

\* run: if the connection is registered, it is deleted and closed.
HubRemove ==
  /\ hub.pc = "remove"
  /\ IF Registered(hub.conn, conns)
       THEN /\ conns' = Delete(conns, hub.conn)
            /\ sock' = [sock EXCEPT ![hub.conn] = "closed"]
            /\ applied' = [applied EXCEPT ![hub.conn].unreg = @ + 1,
                                          ![hub.conn].removed = @ + 1,
                                          ![hub.conn].closes = @ + 1]
       ELSE /\ applied' = [applied EXCEPT ![hub.conn].unreg = @ + 1]
            /\ UNCHANGED <<conns, sock>>
  /\ hub' = LoopTest(running)
  /\ UNCHANGED <<lk, sender, got, connected, running>>
  /\ UNCHANGED <<config, runVars, engineVars, loadVars, judgeVars, ctxVars, portVars, streamVars>>

\* SendDiff, while s.running, up to its select: the message is ready to be
\* sent on s.broadcast.
SendDiffStart ==
  /\ running
  /\ sender.pc \in {"idle", "sent", "timeout"}
  /\ sender.n < MaxBroadcasts
  /\ sender' = SenderAt("sending", sender.n + 1)
  /\ UNCHANGED <<conns, hub, lk, sock, got, applied, connected, running>>
  /\ UNCHANGED <<config, runVars, engineVars, loadVars, judgeVars, ctxVars, portVars, streamVars>>

\* SendDiff: case <-time.After(1 * time.Second), "timeout sending diff".
SendDiffTimeout ==
  /\ sender.pc = "sending"
  /\ sender' = [sender EXCEPT !.pc = "timeout"]
  /\ UNCHANGED <<conns, hub, lk, sock, got, applied, connected, running>>
  /\ UNCHANGED <<config, runVars, engineVars, loadVars, judgeVars, ctxVars, portVars, streamVars>>

\* run: case message := <-s.broadcast.  SendDiff returns nil and the range
\* over s.connections begins.
HubRecvBroadcast ==
  /\ hub.pc = "select"
  /\ sender.pc = "sending"
  /\ hub' = [pc |-> "range", conn |-> Nil, msg |-> sender.n, todo |-> conns,
             start |-> conns, failed |-> {}]
  /\ sender' = [sender EXCEPT !.pc = "sent"]
  /\ UNCHANGED <<conns, lk, sock, got, applied, connected, running>>
  /\ UNCHANGED <<config, runVars, engineVars, loadVars, judgeVars, ctxVars, portVars, streamVars>>

\* run: the range yields a connection (in any order) and the inner select is
\* evaluated: the timer case deletes and closes the connection, the default
\* case calls conn.WriteMessage.
HubAttempt(l) ==
  /\ hub.pc = "range"
  /\ l \in hub.todo
  /\ IF TimeAfterReady
       THEN /\ conns' = Delete(conns, l)
            /\ sock' = [sock EXCEPT ![l] = "closed"]
            /\ applied' = [applied EXCEPT ![l].removed = @ + 1, ![l].closes = @ + 1,
                                          ![l].evicted = @ + 1]
            /\ hub' = [hub EXCEPT !.todo = AfterVisit(@, l, TRUE),
                                  !.failed = @ \cup {l}]
       ELSE /\ hub' = [hub EXCEPT !.pc = "write", !.conn = l]
            /\ UNCHANGED <<conns, sock, applied>>
  /\ UNCHANGED <<lk, sender, got, connected, running>>
  /\ UNCHANGED <<config, runVars, engineVars, loadVars, judgeVars, ctxVars, portVars, streamVars>>

\* run: conn.WriteMessage returns, with an error or without.  The connection
\* has no write deadline: when the peer does not take the bytes the call does
\* not return.
HubWriteReturns(err) ==
  /\ hub.pc = "write"
  /\ IF err
       THEN /\ hub' = [hub EXCEPT !.pc = "evict"]
            /\ UNCHANGED got
       ELSE /\ got' = [got EXCEPT ![hub.conn] = @ \cup {hub.msg}]
            /\ hub' = [hub EXCEPT !.pc = "range", !.conn = Nil,
                                  !.todo = AfterVisit(@, hub.conn, FALSE)]
  /\ UNCHANGED <<conns, lk, sock, sender, applied, connected, running>>
  /\ UNCHANGED <<config, runVars, engineVars, loadVars, judgeVars, ctxVars, portVars, streamVars>>

\* run: after a failed write the connection is deleted and closed.
HubEvict ==
  /\ hub.pc = "evict"
  /\ conns' = Delete(conns, hub.conn)
  /\ sock' = [sock EXCEPT ![hub.conn] = "closed"]
  /\ applied' = [applied EXCEPT ![hub.conn].removed = @ + 1,
                                ![hub.conn].closes = @ + 1,
                                ![hub.conn].evicted = @ + 1]
  /\ hub' = [hub EXCEPT !.pc = "range", !.conn = Nil,
                        !.todo = AfterVisit(@, hub.conn, TRUE),
                        !.failed = @ \cup {hub.conn}]
  /\ UNCHANGED <<lk, sender, got, connected, running>>
  /\ UNCHANGED <<config, runVars, engineVars, loadVars, judgeVars, ctxVars, portVars, streamVars>>

\* run: the range is over and the loop is back at its select.
HubRangeDone ==
  /\ hub.pc = "range"
  /\ hub.todo = {}
  /\ hub' = LoopTest(running)
  /\ UNCHANGED <<conns, lk, sock, sender, got, applied, connected, running>>
  /\ UNCHANGED <<config, runVars, engineVars, loadVars, judgeVars, ctxVars, portVars, streamVars>>

\* IsConnected is called and returns.
IsConnectedCall ==
  /\ \E n \in RacyLen(conns, hub) :
       connected' = [called |-> TRUE, result |-> IsConnected(n),
                     stable |-> Cardinality(RacyLen(conns, hub)) = 1,
                     members |-> { l \in Links :
                                     applied[l].reg = 1 /\ applied[l].removed = 0 },
                     ever |-> { l \in Links : applied[l].reg = 1 }]
  /\ UNCHANGED <<conns, hub, lk, sock, sender, got, applied, running>>
  /\ UNCHANGED <<config, runVars, engineVars, loadVars, judgeVars, ctxVars, portVars, streamVars>>

\* Start: the context is cancelled and s.running = false.  The Shutdown of the
\* HTTP server that follows leaves the upgraded connections alone.
Shutdown ==
  /\ running
  /\ running' = FALSE
  /\ UNCHANGED <<conns, hub, lk, sock, sender, got, applied, connected>>
  /\ UNCHANGED <<config, runVars, engineVars, loadVars, judgeVars, ctxVars, portVars, streamVars>>

NextLinks ==
  \/ \E l \in Links : Upgrade(l)
  \/ \E l \in Links : UpgradeFails(l)
  \/ \E l \in Links : HubRecvRegister(l)
  \/ HubInsert
  \/ \E l \in Links : ReadFails(l)
  \/ \E l \in Links : HubRecvUnregister(l)
  \/ HubRemove
  \/ SendDiffStart
  \/ SendDiffTimeout
  \/ HubRecvBroadcast
  \/ \E l \in Links : HubAttempt(l)
  \/ \E err \in BOOLEAN : HubWriteReturns(err)
  \/ HubEvict
  \/ HubRangeDone
  \/ IsConnectedCall
  \/ Shutdown

SpecLinks == InitLinks /\ [][NextLinks]_vars

\* The hub loop under the scheduling the runtime gives: the goroutine of run
\* goes on whenever it can, a select with a ready case takes one, and the
\* one-second timer of SendDiff fires.  Nothing is assumed of the peers:
\* they may never connect, never close, and never take the bytes of a write;
\* only a write to a connection whose peer has closed is sure to return.
FairnessLinks ==
  /\ \A l \in Links : WF_vars(HubRecvRegister(l))
  /\ WF_vars(HubInsert)
  /\ \A l \in Links : WF_vars(HubRecvUnregister(l))
  /\ WF_vars(HubRemove)
  /\ WF_vars(SendDiffTimeout)
  /\ WF_vars(HubRecvBroadcast)
  /\ \A l \in Links : WF_vars(HubAttempt(l))
  /\ WF_vars(HubEvict)
  /\ WF_vars(HubRangeDone)
  /\ WF_vars(hub.pc = "write" /\ lk[hub.conn] # "reading"
               /\ \E err \in BOOLEAN : HubWriteReturns(err))

SpecLinksLive == InitLinks /\ [][NextLinks]_vars /\ FairnessLinks

\* ------------------------------------------------- the workspace port
\* main calls generateWorkspacePort in some working directory, in a build
\* with 32-bit or 64-bit ints, of either text of the function.
InitPort ==
  /\ RunnerOff
  /\ ContextIdle("off")
  /\ LinksIdle("off")
  /\ StreamIdle("off")
  /\ hsrc \in Versions
  /\ hbits \in Widths
  /\ hpath \in Paths
  /\ hidx = 0
  /\ hhash = Zero(hbits)
  /\ hport = 0
  /\ hpc = "getwd"
  /\ eidx = 0
  /\ ehash = NumberZero
  /\ eport = 0
  /\ epc = "folders"

\* generateWorkspacePort: os.Getwd succeeds and simpleHash is entered.
Getwd ==
  /\ hpc = "getwd"
  /\ hpc' = "range"
  /\ hidx' = 1
  /\ UNCHANGED <<hsrc, hbits, hpath, hhash, hport, eidx, ehash, eport, epc>>
  /\ UNCHANGED <<config, runVars, engineVars, loadVars, judgeVars, ctxVars, linkVars, streamVars>>

\* generateWorkspacePort: os.Getwd fails and the default port is returned.
GetwdFails ==
  /\ hpc = "getwd"
  /\ hpc' = "done"
  /\ hport' = BasePort
  /\ UNCHANGED <<hsrc, hbits, hpath, hidx, hhash, eidx, ehash, eport, epc>>
  /\ UNCHANGED <<config, runVars, engineVars, loadVars, judgeVars, ctxVars, linkVars, streamVars>>

\* simpleHash: one round of for _, c := range s.
HashRound ==
  /\ hpc = "range"
  /\ hidx <= Len(hpath)
  /\ hhash' = simpleHashRound(hsrc, hhash, hpath[hidx])
  /\ hidx' = hidx + 1
  /\ UNCHANGED <<hsrc, hbits, hpath, hport, hpc, eidx, ehash, eport, epc>>
  /\ UNCHANGED <<config, runVars, engineVars, loadVars, judgeVars, ctxVars, linkVars, streamVars>>

\* simpleHash returns and generateWorkspacePort computes the port.
PortReturn ==
  /\ hpc = "range"
  /\ hidx > Len(hpath)
  /\ hhash' = simpleHashReturn(hhash)
  /\ hport' = generateWorkspacePort(simpleHashReturn(hhash))
  /\ hpc' = "done"
  /\ UNCHANGED <<hsrc, hbits, hpath, hidx, eidx, ehash, eport, epc>>
  /\ UNCHANGED <<config, runVars, engineVars, loadVars, judgeVars, ctxVars, linkVars, streamVars>>

\* calculateWorkspacePort: there is no workspace folder and the default port
\* is returned.
ExtNoFolder ==
  /\ epc = "folders"
  /\ epc' = "done"
  /\ eport' = BasePort
  /\ UNCHANGED <<hsrc, hbits, hpath, hidx, hhash, hport, hpc, eidx, ehash>>
  /\ UNCHANGED <<config, runVars, engineVars, loadVars, judgeVars, ctxVars, linkVars, streamVars>>

\* calculateWorkspacePort: the first workspace folder is the directory the
\* server runs in, and simpleHash is entered with its path.
ExtFolder ==
  /\ epc = "folders"
  /\ epc' = "loop"
  /\ eidx' = 1
  /\ UNCHANGED <<hsrc, hbits, hpath, hidx, hhash, hport, hpc, ehash, eport>>
  /\ UNCHANGED <<config, runVars, engineVars, loadVars, judgeVars, ctxVars, linkVars, streamVars>>

\* The extension's simpleHash: one round of the loop over s.length.
ExtHashRound ==
  /\ epc = "loop"
  /\ eidx <= Len(CodeUnits(hpath))
  /\ ehash' = extSimpleHashRound(ehash, CodeUnits(hpath)[eidx])
  /\ eidx' = eidx + 1
  /\ UNCHANGED <<hsrc, hbits, hpath, hidx, hhash, hport, hpc, eport, epc>>
  /\ UNCHANGED <<config, runVars, engineVars, loadVars, judgeVars, ctxVars, linkVars, streamVars>>

\* The extension's simpleHash returns Math.abs(hash) and
\* calculateWorkspacePort the port; tryConnect stores it in currentPort.
ExtReturn ==
  /\ epc = "loop"
  /\ eidx > Len(CodeUnits(hpath))
  /\ eport' = calculateWorkspacePort(ehash)
  /\ epc' = "done"
  /\ UNCHANGED <<hsrc, hbits, hpath, hidx, hhash, hport, hpc, eidx, ehash>>
  /\ UNCHANGED <<config, runVars, engineVars, loadVars, judgeVars, ctxVars, linkVars, streamVars>>

NextPort ==
  \/ Getwd \/ GetwdFails \/ HashRound \/ PortReturn
  \/ ExtNoFolder \/ ExtFolder \/ ExtHashRound \/ ExtReturn

SpecPort == InitPort /\ [][NextPort]_vars

\* ------------------------------------------- one provider request (Ask)
\* Ask makes the response channel with room for ChanCap responses and starts
\* the goroutine that runs streamRequest and closes the channel when it
\* returns; runSingleWorker hands the channel to Collect and never reads it
\* again after Collect returned.
ChanCap == 10

\* What one line of the response body makes handleStreamingResponse do:
\* nothing (blank, "[DONE]", no "data: " prefix, malformed, no content and no
\* finish reason), send a delta, send the final chunk, or both.
LineKinds == {"skip", "delta", "finish", "deltaFinish"}

\* How the body ends once no complete line is left: scanner.Err() is nil or
\* the read failed (as it does once the request's context is done).
BodyEnds == {"eof", "readError"}

DeltaChunk ==
  [ok |-> TRUE, Delta |-> "x", Done |-> FALSE, TokensUsed |-> NoTokens, Error |-> Nil]

DoneChunk(tokens) ==
  [ok |-> TRUE, Delta |-> "", Done |-> TRUE, TokensUsed |-> tokens, Error |-> Nil]

ErrorChunk ==
  [ok |-> TRUE, Delta |-> "", Done |-> FALSE, TokensUsed |-> NoTokens, Error |-> "stream"]

ChanClosed ==
  [ok |-> FALSE, Delta |-> "", Done |-> FALSE, TokensUsed |-> NoTokens, Error |-> Nil]

\* The responses one line makes the producer send, in order.
ChunksOf(line, tokens) ==
  CASE line = "skip" -> <<>>
    [] line = "delta" -> <<DeltaChunk>>
    [] line = "finish" -> <<DoneChunk(tokens)>>
    [] line = "deltaFinish" -> <<DeltaChunk, DoneChunk(tokens)>>

\* handleStreamingResponse returns after the chunk with a finish reason.
Finishes(line) == line \in {"finish", "deltaFinish"}

\* Where the producer goes after a send statement completed.
AfterSend(rest, returns) ==
  IF rest # <<>> THEN "send" ELSE IF returns THEN "return" ELSE "scan"

InitStream ==
  /\ RunnerOff
  /\ ContextIdle("off")
  /\ LinksIdle("off")
  /\ PortIdle("off")
  /\ StreamIdle("start")

\* streamRequest fails before the body is read (marshal, NewRequest, Do, or
\* a status other than 200): one error response, then return.
RequestFails ==
  /\ ppc = "start"
  /\ ppc' = "send"
  /\ pending' = <<ErrorChunk>>
  /\ final' = TRUE
  /\ UNCHANGED <<responseChan, chClosed, scanned, streamCollector, askDone>>
  /\ UNCHANGED <<config, runVars, engineVars, loadVars, judgeVars, ctxVars, linkVars, portVars>>

\* The status is 200: handleStreamingResponse starts scanning the body.
StreamOpens ==
  /\ ppc = "start"
  /\ ppc' = "scan"
  /\ UNCHANGED <<responseChan, chClosed, pending, final, scanned, streamCollector, askDone>>
  /\ UNCHANGED <<config, runVars, engineVars, loadVars, judgeVars, ctxVars, linkVars, portVars>>

\* scanner.Scan() yields one more line; lines the scanner already holds are
\* yielded whether or not the context is done.
ScanLine ==
  /\ ppc = "scan"
  /\ scanned < MaxLines
  /\ \E line \in LineKinds, tokens \in {NoTokens, Reported} :
       /\ line \in {"skip", "delta"} => tokens = NoTokens
       /\ pending' = ChunksOf(line, tokens)
       /\ final' = Finishes(line)
       /\ ppc' = IF line = "skip" THEN "scan" ELSE "send"
  /\ scanned' = scanned + 1
  /\ UNCHANGED <<responseChan, chClosed, streamCollector, askDone>>
  /\ UNCHANGED <<config, runVars, engineVars, loadVars, judgeVars, ctxVars, linkVars, portVars>>

\* scanner.Scan() returns false: the loop ends and scanner.Err() decides
\* whether an error response is sent before the function returns.
ScanEnds ==
  /\ ppc = "scan"
  /\ \E end \in BodyEnds :
       /\ pending' = IF end = "readError" THEN <<ErrorChunk>> ELSE <<>>
       /\ ppc' = IF end = "readError" THEN "send" ELSE "return"
  /\ final' = TRUE
  /\ UNCHANGED <<responseChan, chClosed, scanned, streamCollector, askDone>>
  /\ UNCHANGED <<config, runVars, engineVars, loadVars, judgeVars, ctxVars, linkVars, portVars>>

\* responseChan <- response: the send statement proceeds only while the
\* channel has room.
Send ==
  /\ ppc = "send"
  /\ Len(responseChan) < ChanCap
  /\ responseChan' = Append(responseChan, Head(pending))
  /\ pending' = Tail(pending)
  /\ ppc' = AfterSend(Tail(pending), final)
  /\ UNCHANGED <<chClosed, final, scanned, streamCollector, askDone>>
  /\ UNCHANGED <<config, runVars, engineVars, loadVars, judgeVars, ctxVars, linkVars, portVars>>

\* streamRequest returned: the deferred close(responseChan) runs.
CloseChan ==
  /\ ppc = "return"
  /\ chClosed' = TRUE
  /\ ppc' = "exited"
  /\ UNCHANGED <<responseChan, pending, final, scanned, streamCollector, askDone>>
  /\ UNCHANGED <<config, runVars, engineVars, loadVars, judgeVars, ctxVars, linkVars, portVars>>

\* Collect's select takes the channel branch: a buffered response, or the
\* zero value of a closed and drained channel.
CollectChan ==
  /\ ppc # "off"
  /\ ~streamCollector.returned
  /\ \/ /\ responseChan # <<>>
        /\ streamCollector' = CollectRecv(streamCollector, Head(responseChan))
        /\ responseChan' = Tail(responseChan)
     \/ /\ responseChan = <<>>
        /\ chClosed
        /\ streamCollector' = CollectRecv(streamCollector, ChanClosed)
        /\ UNCHANGED responseChan
  /\ UNCHANGED <<chClosed, ppc, pending, final, scanned, askDone>>
  /\ UNCHANGED <<config, runVars, engineVars, loadVars, judgeVars, ctxVars, linkVars, portVars>>

\* Collect's select takes the ctx.Done() branch.
CollectDone ==
  /\ ppc # "off"
  /\ ~streamCollector.returned
  /\ askDone
  /\ streamCollector' = CollectCtxDone(streamCollector)
  /\ UNCHANGED <<responseChan, chClosed, ppc, pending, final, scanned, askDone>>
  /\ UNCHANGED <<config, runVars, engineVars, loadVars, judgeVars, ctxVars, linkVars, portVars>>

\* The run's deadline fires, or the errgroup cancels the context.
AskDeadline ==
  /\ ppc # "off"
  /\ ~askDone
  /\ askDone' = TRUE
  /\ UNCHANGED <<responseChan, chClosed, ppc, pending, final, scanned, streamCollector>>
  /\ UNCHANGED <<config, runVars, engineVars, loadVars, judgeVars, ctxVars, linkVars, portVars>>

NextStream ==
  \/ RequestFails \/ StreamOpens \/ ScanLine \/ ScanEnds \/ Send \/ CloseChan
  \/ CollectChan \/ CollectDone \/ AskDeadline

SpecStream == InitStream /\ [][NextStream]_vars

\* The producer goroutine and the goroutine in Collect keep being scheduled:
\* a step of either that stays possible is taken. A body read always returns
\* (data, end of body, or the failure the done context causes).
FairnessStream ==
  /\ WF_vars(RequestFails \/ StreamOpens \/ ScanLine \/ ScanEnds \/ Send \/ CloseChan)
  /\ WF_vars(CollectChan \/ CollectDone)

SpecStreamLive == InitStream /\ [][NextStream]_vars /\ FairnessStream

\* =============================================================== claims
\* A worker result that counts for the consensus: no error, content present.
Good(w) == w.Error = Nil /\ w.Content # ""

GoodIdx(ws) == {i \in 1..Len(ws) : Good(ws[i])}

FirstGood(ws) == CHOOSE i \in GoodIdx(ws) : \A k \in GoodIdx(ws) : i <= k

RunDone == pc = "done"

\* C1: in every RunResult that Run returns, entry i of Workers is the result
\* of the i-th configured worker (its id and the content its own task
\* collected), whatever the order in which the tasks completed; no slot ever
\* holds another worker's result.
C1_ResultOrderIsConfigOrder ==
  /\ \A i \in 1..Len(results) : results[i].WorkerID \in {"", config.Workers[i].ID}
  /\ RunDone =>
       /\ Len(result.Workers) = NumWorkers
       /\ \A i \in WorkerIdx :
            /\ result.Workers[i].WorkerID = config.Workers[i].ID
            /\ result.Workers[i].Content = collector[i].Content

\* Run returned although the task of a later worker published first.
C1_Witness == RunDone /\ overtaken /\ NumWorkers >= 2

\* C2: a failure of one worker (provider lookup, Ask, stream error) is
\* recorded in that worker's own slot only.  The group is never cancelled, so
\* a task ends with the context error only after the run deadline fired, and
\* every finished task's slot holds what its own provider exchange gave.
C2_FailureIsolation ==
  /\ groupErr = Nil
  /\ \A i \in DOMAIN wpc :
       wpc[i] = "done" =>
         /\ results[i].WorkerID = config.Workers[i].ID
         /\ results[i].Content = collector[i].Content
         /\ results[i].Error = "ctx" => deadlineFired
         /\ IF config.Workers[i].Provider \notin Providers
              THEN results[i].Error = "lookup"
              ELSE results[i].Error \in {"ask", collector[i].Error}
         /\ results[i].Error = "ask" => collector[i] = NewStreamCollector
  /\ RunDone => result.Workers = results

\* Run returned before the deadline: the first worker failed (lookup, Ask or
\* stream error) and the second one holds its successful result.
C2_Witness ==
  /\ RunDone /\ ~deadlineFired /\ NumWorkers >= 2
  /\ results[1].Error \in {"ask", "stream", "lookup"}
  /\ Good(results[2])

\* C3: the aggregate totals and the consensus are computed only after every
\* worker task has published its slot: until g.Wait() returned the RunResult
\* is untouched, and from then on every worker has ended and no slot of the
\* worker list is unwritten.
C3_JoinBarrier ==
  /\ pc \in {"start", "wait"} => result = RunResult /\ runErr = Nil
  /\ pc \in {"consensus", "done"} =>
       /\ \A i \in WorkerIdx : wpc[i] = "done" /\ results[i].WorkerID # ""
       /\ Len(result.Workers) = NumWorkers
       /\ \A i \in WorkerIdx : result.Workers[i].WorkerID # ""

\* The first task to end failed, the barrier went on waiting for an earlier
\* worker, which then succeeded, and Run returned.
C3_Witness ==
  /\ RunDone /\ NumWorkers = 2 /\ overtaken
  /\ result.Workers[2].Error # Nil
  /\ Good(result.Workers[1])

\* C4: when every configured worker ended with an error or with empty content
\* (also when no worker is configured), Run returns an error, no consensus and
\* Success = FALSE, under every algorithm.
C4_AllFailedNoConsensus ==
  (RunDone /\ GoodIdx(result.Workers) = {}) =>
     /\ runErr # Nil
     /\ ~result.Consensus.present
     /\ ~result.Success

\* Run returned under majority with one worker that failed and one that
\* succeeded with empty content.
C4_Witness ==
  /\ RunDone /\ NumWorkers = 2 /\ config.Algorithm = "majority"
  /\ result.Workers[1].Error # Nil
  /\ result.Workers[2].Error = Nil /\ result.Workers[2].Content = ""

\* C5: in every RunResult Run returns, Success holds exactly when a consensus
\* is present, and exactly when Run returned no error.
C5_SuccessIffConsensusIffNoError ==
  RunDone =>
    /\ result.Success <=> result.Consensus.present
    /\ result.Consensus.present <=> runErr = Nil

\* Run returned an error although a worker succeeded.
C5_Witness == RunDone /\ runErr # Nil /\ GoodIdx(result.Workers) # {}

\* The errors the consensus engine returns.
ConsensusErrors ==
  {"no successful workers to build consensus from",
   "no workers for majority consensus",
   "no valid workers found for scoring",
   "best score does not meet minimum threshold",
   "embedding_cluster consensus not yet implemented",
   "referee consensus not yet implemented",
   "unknown consensus algorithm"}

ConsensusStepFailed == runErr \in {ConsensusFailed(e) : e \in ConsensusErrors}

\* C6: when the consensus step fails after the workers ran, the RunResult
\* returned with the error still holds one WorkerResult per configured worker,
\* the successful ones included, and the aggregate totals.
C6_ConsensusFailureKeepsWorkers ==
  (RunDone /\ ConsensusStepFailed) =>
     /\ ~result.Success
     /\ Len(result.Workers) = NumWorkers
     /\ \A i \in WorkerIdx : result.Workers[i] = results[i]
     /\ result.TotalTokens = SumTokens(results)
     /\ result.EstimatedCost = SumCost(results)

\* The consensus failed although a worker succeeded and tokens were counted.
C6_Witness ==
  /\ RunDone /\ ConsensusStepFailed
  /\ GoodIdx(result.Workers) # {}
  /\ result.TotalTokens > 0

\* The winner, content, confidence and participant count of the majority
\* rule on the worker list ws.
IsFirstGoodConsensus(c, ws) ==
  /\ c.present
  /\ c.Winner = ws[FirstGood(ws)].WorkerID
  /\ c.Content = ws[FirstGood(ws)].Content
  /\ RatEQ(c.Confidence, <<1, Cardinality(GoodIdx(ws))>>)
  /\ c.Participants = Cardinality(GoodIdx(ws))

\* C7: under majority the winner is the first worker in configuration order
\* with no error and non-empty content and the confidence is 1 over the
\* number of such workers; a sole successful worker wins with confidence 1.
C7_MajorityFirstSuccessful ==
  (RunDone /\ config.Algorithm = "majority" /\ GoodIdx(result.Workers) # {}) =>
     /\ runErr = Nil
     /\ IsFirstGoodConsensus(result.Consensus, result.Workers)
     /\ Cardinality(GoodIdx(result.Workers)) = 1 => result.Consensus.Confidence = <<1, 1>>

\* The sole successful worker is not the first one.
C7_Witness ==
  /\ RunDone /\ config.Algorithm = "majority"
  /\ GoodIdx(result.Workers) = {NumWorkers} /\ NumWorkers >= 2
  /\ result.Consensus.Winner = config.Workers[NumWorkers].ID

\* C8: score_top1 with no judge configured gives the winner, content,
\* confidence and participant count of majority and never applies the
\* minimum-score gate.
C8_NoJudgesIsMajority ==
  (RunDone /\ config.Algorithm = "score_top1" /\ Len(config.Judges) = 0
     /\ GoodIdx(result.Workers) # {}) =>
     /\ runErr = Nil
     /\ IsFirstGoodConsensus(result.Consensus, result.Workers)

\* A consensus under score_top1 without judges and the highest minimum score.
C8_Witness ==
  /\ RunDone /\ config.Algorithm = "score_top1" /\ Len(config.Judges) = 0
  /\ config.MinScore = 801
  /\ Cardinality(GoodIdx(result.Workers)) >= 2
  /\ result.Consensus.present

\* The valid scores among the replies of the judges of one worker.
ValidScores(replies) == SelectSeq(replies, LAMBDA r : r.ok)

RECURSIVE SumReplies(_)
SumReplies(replies) ==
  IF Len(replies) = 0 THEN 0 ELSE Head(replies).score + SumReplies(Tail(replies))

\* The comparison score of the i-th evaluated worker, from the judges' replies.
Comparison(i) ==
  IF Len(ValidScores(creplies[i])) = 0 THEN <<5, 1>>
  ELSE <<SumReplies(ValidScores(creplies[i])), Len(ValidScores(creplies[i]))>>

Judged ==
  /\ cpc = "returned" /\ config.Algorithm = "score_top1" /\ Len(config.Judges) >= 1
  /\ GoodIdx(cworkers) # {}

\* C9: under score_top1 with a judge, each successful worker's comparison
\* score is the average of its valid judge scores, or 5.0 without a valid
\* judge result; the selected worker has the greatest comparison score and
\* is the earliest of those that have it.
C9_ScoreTop1Selection ==
  Judged =>
    /\ Len(cout.evaluatedWorkers) = Cardinality(GoodIdx(cworkers))
    /\ \A i \in 1..Len(cout.evaluatedWorkers) :
         RatEQ(ComparisonScore(cout.evaluatedWorkers[i]), Comparison(i))
    /\ cout.bestWorker \in 1..Len(cout.evaluatedWorkers)
    /\ RatEQ(cout.bestScore, Comparison(cout.bestWorker))
    /\ \A i \in 1..Len(cout.evaluatedWorkers) :
         /\ ~RatGT(Comparison(i), Comparison(cout.bestWorker))
         /\ RatEQ(Comparison(i), Comparison(cout.bestWorker)) => cout.bestWorker <= i
    /\ cout.consensus.present =>
         cout.consensus.Winner = cout.evaluatedWorkers[cout.bestWorker].WorkerID

\* An unjudged first worker (5.0) ties with a second one averaging 5.0 from
\* the scores 4 and 6, and the first is selected.
C9_Witness ==
  /\ Judged /\ Len(cout.evaluatedWorkers) = 2
  /\ Len(ValidScores(creplies[1])) = 0
  /\ Len(ValidScores(creplies[2])) = 2 /\ SumReplies(creplies[2]) = 10
  /\ cout.bestWorker = 1
  /\ cout.consensus.present

\* C10: under score_top1 with a judge the minimum-score gate is inclusive: a
\* selected score greater than or equal to the minimum score yields a
\* consensus and no error; a score strictly below yields the threshold error,
\* no consensus and a failed Run although worker answers exist.
C10_MinScoreGateInclusive ==
  Judged =>
    IF cout.bestScore[1] * 100 >= config.MinScore * cout.bestScore[2]
      THEN /\ cout.err = Nil
           /\ cout.consensus.present
           /\ RunReturn(RunResult, cout.consensus, cout.err).Success
      ELSE /\ cout.err = "best score does not meet minimum threshold"
           /\ ~cout.consensus.present
           /\ ~RunReturn(RunResult, cout.consensus, cout.err).Success
           /\ ~RunReturn(RunResult, cout.consensus, cout.err).Consensus.present

\* A selected score of exactly 8.0 against a minimum score of 8.0 succeeds.
C10_Witness ==
  /\ Judged /\ config.MinScore = 800
  /\ RatEQ(cout.bestScore, <<8, 1>>)
  /\ cout.consensus.present

\* The i-th evaluated worker has a valid judge score and its valid scores
\* average n.
HasAverage(i, n) ==
  /\ Len(ValidScores(creplies[i])) >= 1
  /\ SumReplies(ValidScores(creplies[i])) = n * Len(ValidScores(creplies[i]))

\* Two successful workers were judged, one averaging 8.0 at position a and
\* one averaging 4.0 at position b, with a minimum score of 6.
EightAndFour(a, b) ==
  /\ Judged /\ config.MinScore = 600
  /\ Len(cout.evaluatedWorkers) = 2
  /\ {a, b} = {1, 2}
  /\ HasAverage(a, 8) /\ HasAverage(b, 4)

\* C11 as stated: with a minimum score of 6 and two workers averaging 8.0
\* and 4.0, the run fails because not all workers reach the threshold.
C11_AllWorkersMustPass ==
  \A a, b \in 1..2 :
    EightAndFour(a, b) => (cout.err # Nil /\ ~cout.consensus.present)

\* C11: with a minimum score of 6 and two workers averaging 8.0 and 4.0,
\* only the selected worker's score meets the gate: the run yields a
\* consensus whose winner is the worker averaging 8.0, with confidence 0.8,
\* and no error.
C11_OnlyWinnerMustPass ==
  \A a, b \in 1..2 :
    EightAndFour(a, b) =>
      /\ cout.err = Nil
      /\ cout.consensus.present
      /\ cout.consensus.Winner = cout.evaluatedWorkers[a].WorkerID
      /\ RatEQ(cout.consensus.Confidence, <<8, 10>>)
      /\ RunReturn(RunResult, cout.consensus, cout.err).Success

\* The worker averaging 4.0 comes first and the one averaging 8.0 second.
C11_Witness == EightAndFour(2, 1) /\ cout.bestWorker = 2

\* The average score stored in the selected worker's result.
WinnerAverage == cout.evaluatedWorkers[cout.bestWorker].AverageScore

\* C12 as stated: the default 5.0 serves the ranking only, and the value
\* compared against the minimum score after the selection is the winning
\* worker's average judge score.
C12_GateOnWinnerAverage ==
  Judged => (cout.consensus.present <=> ~RatLT(WinnerAverage, <<config.MinScore, 100>>))

\* C12: the default 5.0 is never stored as a worker's average score, but it
\* is the value of an unjudged worker both in the ranking and at the gate:
\* the value compared against the minimum score is the winner's comparison
\* score (its average judge score, or 5.0 without a valid judge result), and
\* the confidence of the consensus is that value over 10.
C12_GateOnComparisonScore ==
  Judged =>
    /\ \A i \in 1..Len(cout.evaluatedWorkers) :
         Len(ValidScores(creplies[i])) = 0 =>
           cout.evaluatedWorkers[i].AverageScore = <<0, 1>>
    /\ cout.consensus.present <=>
         ~RatLT(Comparison(cout.bestWorker), <<config.MinScore, 100>>)
    /\ cout.consensus.present =>
         RatEQ(cout.consensus.Confidence,
               <<Comparison(cout.bestWorker)[1], Comparison(cout.bestWorker)[2] * 10>>)

\* A selected worker without a valid judge result passes a minimum score of
\* 4 with the default 5.0, its stored average being 0.
C12_Witness ==
  /\ Judged /\ config.MinScore = 400
  /\ Len(ValidScores(creplies[cout.bestWorker])) = 0
  /\ WinnerAverage = <<0, 1>>
  /\ cout.consensus.present
  /\ RatEQ(cout.consensus.Confidence, <<1, 2>>)

\* The judges whose reply for the i-th evaluated worker was valid.
ValidJudges(i) == {j \in 1..Len(config.Judges) : creplies[i][j].ok}

\* The line of the reasoning for judge j's score of the i-th evaluated worker.
JudgeLine(i, j) == <<config.Judges[j].ID, creplies[i][j].score>>

\* C13: the reasoning of a score_top1 consensus lists, for the winning
\* worker, each judge that gave it a valid score with that judge's id and raw
\* score, in judge order, and nothing else: no line carries a score given to
\* another worker.
C13_ReasoningListsWinnerScores ==
  (Judged /\ cout.consensus.present) =>
    /\ Len(cout.consensus.Reasoning) = Cardinality(ValidJudges(cout.bestWorker))
    /\ \A j \in ValidJudges(cout.bestWorker) :
         \E k \in 1..Len(cout.consensus.Reasoning) :
           /\ cout.consensus.Reasoning[k] = JudgeLine(cout.bestWorker, j)
           /\ k = Cardinality({h \in ValidJudges(cout.bestWorker) : h <= j})
    /\ \A k \in 1..Len(cout.consensus.Reasoning) :
         \E j \in ValidJudges(cout.bestWorker) :
           cout.consensus.Reasoning[k] = JudgeLine(cout.bestWorker, j)

\* The second worker wins on the second judge's score alone, the first judge
\* having failed for it, while the first worker got other scores.
C13_Witness ==
  /\ Judged /\ cout.consensus.present
  /\ Len(cout.evaluatedWorkers) = 2 /\ cout.bestWorker = 2
  /\ ValidJudges(2) = {2} /\ ValidJudges(1) = {1, 2}
  /\ creplies[2][2].score = 8
  /\ creplies[1][1].score = 4 /\ creplies[1][2].score = 6
  /\ cout.consensus.Reasoning = <<<<JudgeID(2), 8>>>>

\* Run returned under one of the two algorithms that are declared only.
DeclaredOnly == RunDone /\ config.Algorithm \in {"embedding_cluster", "referee"}

NotImplementedError ==
  ConsensusFailed(config.Algorithm \o " consensus not yet implemented")

\* C14 as stated: with embedding_cluster or referee, Run always ends with a
\* not-implemented error and no consensus, whatever the worker results are.
C14_AlwaysNotImplemented ==
  DeclaredOnly => (runErr = NotImplementedError /\ ~result.Consensus.present)

\* C14: with embedding_cluster or referee, Run always ends with an error, no
\* consensus, no winner and Success = FALSE; the error is the
\* not-implemented error naming the algorithm whenever a worker succeeded,
\* and the no-successful-workers error when none did.
C14_DeclaredOnlyNeverSelects ==
  DeclaredOnly =>
    /\ ~result.Consensus.present
    /\ result.Consensus.Winner = ""
    /\ ~result.Success
    /\ IF GoodIdx(result.Workers) # {}
         THEN runErr = NotImplementedError
         ELSE runErr = ConsensusFailed("no successful workers to build consensus from")

\* Run returned the not-implemented error under referee although two workers
\* succeeded.
C14_Witness ==
  /\ DeclaredOnly /\ config.Algorithm = "referee"
  /\ Cardinality(GoodIdx(result.Workers)) = 2
  /\ runErr = "consensus failed: referee consensus not yet implemented"

\* C15: an algorithm name other than majority, score_top1, embedding_cluster
\* and referee is a configuration error: validate refuses a configuration
\* that carries it, and a Run on a runner holding such a name returns an
\* error, no consensus and Success = FALSE.
C15_UnknownAlgorithmRejected ==
  /\ (vpc = "processed"
        /\ vcfg.Algorithm \notin {"majority", "score_top1", "embedding_cluster", "referee"})
       => verr # Nil
  /\ (cpc = "returned"
        /\ config.Algorithm \notin {"majority", "score_top1", "embedding_cluster", "referee"})
       => /\ cout.err # Nil
          /\ ~cout.consensus.present
          /\ ~RunReturn(RunResult, cout.consensus, cout.err).Success
          /\ ~RunReturn(RunResult, cout.consensus, cout.err).Consensus.present

\* A configuration whose only defect is the algorithm name was refused for
\* it, and a Run on it with a successful worker returned the unknown-algorithm
\* error.
C15_Witness ==
  /\ vpc = "processed" /\ vcfg.Algorithm = "bogus"
  /\ verr = "invalid consensus algorithm"
  /\ cpc = "returned"
  /\ GoodIdx(cworkers) # {}
  /\ cout.err = "unknown consensus algorithm"

\* The reply texts that hold a JSON object json.Unmarshal decodes with a
\* score in 0..10, each with that score (0 when the object has no score
\* member, the last one when it has two).
DecodableReplies ==
  { << <<"{", "7", "}">>, 7 >>,
    << <<" ", "prose", "{", "7", "reason", "}", "prose", " ">>, 7 >>,
    << <<"{", "0", "}">>, 0 >>,
    << <<"{", "10", "}">>, 10 >>,
    << <<"{", "reason", "}">>, 0 >>,
    << <<"{", "4", "7", "}">>, 7 >> }

BatchReturned == jpc = "returned"

\* Judge j's provider exchange succeeded and its reply is decodable.
Contributes(j) ==
  /\ config.Judges[j].Provider \in Providers
  /\ jslots[j].Error # "ask"
  /\ jcollector[j].Error = Nil
  /\ \E p \in DecodableReplies : p[1] = jcollector[j].Content

Contributors == {j \in JudgeIdx : Contributes(j)}

ExpectedScore(j) ==
  (CHOOSE p \in DecodableReplies : p[1] = jcollector[j].Content)[2]

RECURSIVE SumExpected(_)
SumExpected(judges) ==
  IF judges = {} THEN 0
  ELSE LET j == CHOOSE j \in judges : TRUE
       IN ExpectedScore(j) + SumExpected(judges \ {j})

\* C16: every JudgeResult the judge evaluation of one worker returns has no
\* error and a score in 0..10; the returned entries are, in judge order,
\* those of the judges whose provider exchange succeeded and whose reply
\* holds a decodable object with a score in 0..10, so a judge whose reply has
\* no decodable object, whose score is below 0 or above 10, or whose provider
\* call failed has no entry; and the worker's average score is the mean over
\* exactly the returned entries (0 when there is none).
C16_OnlyValidJudgeResults ==
  BatchReturned =>
    /\ \A k \in 1..Len(jout.results) :
         /\ jout.results[k].Error = Nil
         /\ jout.results[k].Score \in 0..10
    /\ Len(jout.results) = Cardinality(Contributors)
    /\ \A j \in Contributors :
         jout.results[Cardinality({h \in Contributors : h <= j})] =
           [JudgeID |-> JudgeID(j), WorkerID |-> JudgedWorker.WorkerID,
            Score |-> ExpectedScore(j), Error |-> Nil]
    /\ \A j \in JudgeIdx \ Contributors :
         \A k \in 1..Len(jout.results) : jout.results[k].JudgeID # JudgeID(j)
    /\ jworker.JudgeResults = jout.results
    /\ IF Contributors = {}
         THEN jworker.AverageScore = <<0, 1>>
         ELSE RatEQ(jworker.AverageScore,
                    <<SumExpected(Contributors), Cardinality(Contributors)>>)

\* The first judge answered with a score of 11, the second with a score of 7
\* inside prose: the batch returned the second judge's entry alone and the
\* average is 7.
C16_Witness ==
  /\ BatchReturned /\ Len(config.Judges) = 2
  /\ jcollector[1].Error = Nil /\ jcollector[1].Content = <<"{", "11", "}">>
  /\ jcollector[2].Content = <<" ", "prose", "{", "7", "reason", "}", "prose", " ">>
  /\ Len(jout.results) = 1 /\ jout.results[1].JudgeID = JudgeID(2)
  /\ jworker.AverageScore = <<7, 1>>

\* C17: the judge batch of one worker never fails as a whole: whatever
\* judges fail, all of them or after the deadline fired, it returns no error
\* and the list of the valid results; the judges' group is never cancelled,
\* so a judge ends with the context error only after the run deadline fired.
C17_JudgeBatchNeverFails ==
  /\ jgroupErr = Nil
  /\ \A j \in DOMAIN jslots : jslots[j].Error = "ctx" => jdeadline
  /\ BatchReturned =>
       /\ jout.err = Nil
       /\ Len(jout.results) <= Len(config.Judges)
       /\ \A j \in JudgeIdx :
            jslots[j].Error = Nil <=>
              \E k \in 1..Len(jout.results) : jout.results[k] = jslots[j]

\* The batch returned an empty list and no error: one judge failed at its
\* provider, the other one was cut by the deadline.
C17_Witness ==
  /\ BatchReturned /\ Len(config.Judges) = 2
  /\ jslots[1].Error \in {"lookup", "ask", "stream"}
  /\ jslots[2].Error = "ctx"
  /\ jout = [results |-> <<>>, err |-> Nil]

\* C18: every Consensus that Run emits, under majority and under score_top1
\* (with or without judges), has a confidence between 0 and 1, both included.
C18_ConfidenceInUnitInterval ==
  (RunDone /\ result.Consensus.present) =>
    /\ config.Algorithm \in {"majority", "score_top1"}
    /\ result.Consensus.Confidence[2] > 0
    /\ ~RatLT(result.Consensus.Confidence, <<0, 1>>)
    /\ ~RatGT(result.Consensus.Confidence, <<1, 1>>)

\* Run emitted a score_top1 consensus whose winner a judge scored 8.
C18_Witness ==
  /\ RunDone /\ result.Consensus.present
  /\ config.Algorithm = "score_top1" /\ Len(config.Judges) = 1
  /\ Len(result.Consensus.Reasoning) = 1
  /\ RatEQ(result.Consensus.Confidence, <<8, 10>>)

\* The sum of the total token counts of the workers of ws at the indices idx.
RECURSIVE TokensOf(_, _)
TokensOf(ws, idx) ==
  IF idx = {} THEN 0
  ELSE LET i == CHOOSE i \in idx : TRUE
       IN ws[i].TokensUsed.TotalTokens + TokensOf(ws, idx \ {i})

\* The workers whose result carries a token usage.
WithUsage(ws) == {i \in 1..Len(ws) : ws[i].TokensUsed.present}

\* C19 as stated: TotalTokens is the sum of the total token counts over the
\* successful workers only; a worker that reported its usage and then
\* failed, timed out or returned empty content contributes nothing.
C19_TokensOfSuccessfulOnly ==
  RunDone =>
    result.TotalTokens = TokensOf(result.Workers, GoodIdx(result.Workers) \cap
                                                    WithUsage(result.Workers))

\* C19: TotalTokens is the sum of the total token counts over all workers
\* whose result carries a token usage: the successful ones (reported or
\* estimated usage) and also the workers that reported their usage and then
\* failed, timed out or returned empty content.  A worker without a usage
\* contributes nothing.
C19_TokensOfAllWorkersWithUsage ==
  RunDone =>
    /\ result.TotalTokens = TokensOf(result.Workers, WithUsage(result.Workers))
    /\ GoodIdx(result.Workers) \subseteq WithUsage(result.Workers)

\* The first worker reported its usage and then failed on the deadline, the
\* second one succeeded: the total counts both.
C19_Witness ==
  /\ RunDone /\ NumWorkers = 2
  /\ result.Workers[1].Error = "ctx" /\ result.Workers[1].TokensUsed.present
  /\ Good(result.Workers[2])
  /\ result.TotalTokens =
       result.Workers[1].TokensUsed.TotalTokens + result.Workers[2].TokensUsed.TotalTokens
  /\ result.TotalTokens > result.Workers[2].TokensUsed.TotalTokens

\* Worker i is inside Collect.
WorkerBlocked(i) == i \in DOMAIN wpc /\ wpc[i] = "collect"

JudgeBlocked(j) == j \in DOMAIN jwpc /\ jwpc[j] = "collect"

\* C20: once the run deadline has fired, a worker or judge task that is
\* blocked in Collect ends, and when it ends by observing the cancellation
\* its own result carries the context error; so Run returns after the
\* deadline, and a judge batch returns, even if no provider stream ever
\* delivers another chunk.  The slot of a finished task is never changed
\* afterwards, and the RunResult holds every worker's slot, the worker cut by
\* the deadline being marked failed.
C20_DeadlineEndsEveryTask ==
  /\ \A i \in 1..MaxWorkers :
       (deadlineFired /\ WorkerBlocked(i)) ~> (i \in DOMAIN wpc /\ wpc[i] = "done")
  /\ \A j \in 1..MaxJudges :
       (jdeadline /\ JudgeBlocked(j)) ~> (j \in DOMAIN jwpc /\ jwpc[j] = "done")
  /\ deadlineFired ~> RunDone
  /\ jdeadline ~> BatchReturned
  /\ [][ /\ \A i \in DOMAIN wpc :
              /\ wpc[i] = "done" => (wpc'[i] = "done" /\ results'[i] = results[i])
              /\ (wpc[i] = "collect" /\ wpc'[i] = "done" /\ collector'[i].Error = "ctx")
                   => (deadlineFired /\ results'[i].Error = "ctx")
         /\ \A j \in DOMAIN jwpc :
              /\ jwpc[j] = "done" => (jwpc'[j] = "done" /\ jslots'[j] = jslots[j])
              /\ (jwpc[j] = "collect" /\ jwpc'[j] = "done" /\ jcollector'[j].Error = "ctx")
                   => (jdeadline /\ jslots'[j].Error = "ctx") ]_vars
  /\ [](RunDone =>
          \A i \in DOMAIN wpc :
            /\ result.Workers[i] = results[i]
            /\ collector[i].Error = "ctx" => ~Good(result.Workers[i]))

\* Run returned after the deadline: the first worker had finished with its
\* answer before, the second was cut while it waited for its stream.
C20_Witness ==
  /\ RunDone /\ deadlineFired /\ NumWorkers = 2
  /\ Good(result.Workers[1])
  /\ result.Workers[2].Error = "ctx" /\ result.Workers[2].Content = ""


\* ---- the editor context (SpecContext)

\* The hub's shared context as a reader would see it.
Shared == View(ectx, heap)

\* No processMessage is between its Lock and its Unlock.
NoneApplying == \A l \in Links : lpc[l] \notin {"first", "second"}

\* The last n elements of s (all of s when it is shorter).
LastOf(s, n) == IF Len(s) <= n THEN s ELSE SubSeq(s, Len(s) - n + 1, Len(s))

\* C21: whenever no message is being applied, the diagnostics list of the
\* editor context has at most 10 entries and holds exactly the most recently
\* applied diagnostics in the order they were applied: an append beyond 10
\* evicted the oldest entry and no other.
C21_DiagnosticsAreLastTen ==
  NoneApplying =>
    /\ Len(Shared.Diagnostics) <= MaxDiagnostics
    /\ Shared.Diagnostics = LastOf(dlog, MaxDiagnostics)

\* Both links have sent diagnostics, more than 10 were applied and the two
\* oldest are gone.
C21_Witness ==
  /\ NoneApplying
  /\ Len(dlog) = MaxDiagnostics + 2
  /\ Len(Shared.Diagnostics) = MaxDiagnostics
  /\ Shared.Diagnostics[1] = dlog[3]
  /\ \E i, j \in 1..Len(dlog) : dlog[i].Message[1] # dlog[j].Message[1]

\* The contexts a reader has been given, as they were returned.
Snapshots == { returned[r].view : r \in { x \in Readers : returned[x].present } }

\* In context view v a present selection belongs to the active file.
SelectionOfActiveFile(v) == v.hasSelection => v.Selection.File = v.ActiveFile

\* The last applied message was a fileChange that named a file while a
\* selection was present.
FileChangedUnderSelection ==
  /\ last.present
  /\ last.msg.Type = "fileChange"
  /\ last.msg.file # NoField
  /\ last.pre.hasSelection

\* C22: in the shared context (whenever no message is being applied) and in
\* every snapshot a present selection belongs to the active file; a selection
\* message sets the active file to the selection's file; a fileChange to
\* another file than the selection's clears the selection and a fileChange to
\* the selection's own file keeps it.
C22_SelectionBelongsToActiveFile ==
  /\ NoneApplying => SelectionOfActiveFile(Shared)
  /\ \A v \in Snapshots : SelectionOfActiveFile(v)
  /\ (last.present /\ last.msg.Type = "selection") =>
       /\ last.post.hasSelection
       /\ last.post.Selection = DecodeSelection(last.msg)
       /\ last.post.ActiveFile = last.post.Selection.File
  /\ FileChangedUnderSelection =>
       /\ last.post.ActiveFile = last.msg.file
       /\ IF last.msg.file = last.pre.Selection.File
            THEN last.post.hasSelection /\ last.post.Selection = last.pre.Selection
            ELSE ~last.post.hasSelection

\* A selection for file A, then a fileChange to file B, and the snapshot taken
\* afterwards has no selection.
C22_Witness ==
  /\ FileChangedUnderSelection
  /\ last.pre.Selection.File = "A"
  /\ last.msg.file = "B"
  /\ \E r \in Readers :
       /\ returned[r].present
       /\ returned[r].view = last.post
       /\ ~returned[r].view.hasSelection
       /\ returned[r].view.ActiveFile = "B"

\* What the holder of reader r's snapshot reads through it now.
Held(r) == View(snap[r], heap)

\* C23: a snapshot returned by GetContext that its holder has not written to
\* reads the same ever after (selection, diagnostics and open-file list
\* included), whatever messages are applied later and whatever another holder
\* writes into its own snapshot; and the shared context is what the applied
\* messages made it, whatever the holders of snapshots write.
C23_SnapshotIsIndependent ==
  /\ \A r \in Readers : rpc[r] = "has" => Held(r) = returned[r].view
  /\ NoneApplying => Shared = last.post

\* One reader has written into its snapshot, another holds a snapshot with a
\* selection, and a message applied later has changed the shared context.
C23_Witness ==
  \E r, o \in Readers :
    /\ rpc[r] = "edited"
    /\ Held(r) # returned[r].view
    /\ rpc[o] = "has"
    /\ returned[o].view.hasSelection
    /\ NoneApplying
    /\ last.present
    /\ Shared # returned[o].view
    /\ Shared # returned[r].view

\* The links whose processMessage is between its Lock and its Unlock.
Applying == { l \in Links : lpc[l] \in {"first", "second"} }

\* C24: every snapshot GetContext returned equals the context as the last
\* fully applied message left it (the context after a whole prefix of the
\* order in which the messages took the lock); no two messages are being
\* applied at once and none while a reader copies.
C24_SnapshotsSeeWholeMessages ==
  /\ \A r \in Readers : returned[r].present => returned[r].view = returned[r].committed
  /\ Cardinality(Applying) <= 1
  /\ (\E r \in Readers : rpc[r] = "copy") => Applying = {}

\* A reader was given the context with a selection in it, one link's message
\* then changed the context, and the other link's message is being applied.
C24_Witness ==
  \E r \in Readers :
    /\ returned[r].present
    /\ returned[r].view.hasSelection
    /\ last.present
    /\ returned[r].view = last.pre
    /\ last.pre # last.post
    /\ Applying # {}
    /\ last.link \notin Applying

\* The parts of the context.
Parts == {"ActiveFile", "WorkspaceRoot", "hasSelection", "Selection", "Diagnostics",
          "OpenFiles"}

\* The parts the last applied message changed.
ChangedParts == { p \in Parts : last.pre[p] # last.post[p] }

\* The parts a message of the given type may change.
OwnParts(type) ==
  CASE type = "selection" -> {"hasSelection", "Selection", "ActiveFile"}
    [] type = "diagnostic" -> {"Diagnostics"}
    [] type = "fileChange" -> {"ActiveFile", "hasSelection", "Selection"}
    [] type = "workspace" -> {"WorkspaceRoot", "OpenFiles"}
    [] OTHER -> {}

\* C25: an applied message changed only the parts of the context that belong
\* to its type (a fileChange changes the selection only by clearing it, a
\* message of any other type than the four changes nothing), and the loop of
\* a link ends only when the peer has closed, after every frame it sent was
\* read.
C25_MessageChangesOwnPartOnly ==
  /\ last.present =>
       /\ ChangedParts \subseteq OwnParts(last.msg.Type)
       /\ (last.msg.Type = "fileChange" /\ last.post.hasSelection) =>
            last.post.Selection = last.pre.Selection
       /\ (last.msg.Type = "workspace" /\ last.msg.root # NoField) =>
            last.post.WorkspaceRoot = last.msg.root
       /\ (last.msg.Type = "workspace" /\ last.msg.open_files # NoField) =>
            last.post.OpenFiles = Strings(last.msg.open_files)
  /\ \A l \in Links : lpc[l] = "closed" => script[l] = <<>>

\* A message of an unknown type was applied to a context that held a
\* selection, and its link went on to its next message.
C25_Witness ==
  /\ last.present
  /\ last.msg.Type = "ping"
  /\ last.pre.hasSelection
  /\ last.pre = last.post
  /\ lpc[last.link] = "lock"

\* ---- the hub loop and its links (SpecLinks, SpecLinksLive)

\* The links whose registration the hub has applied and which it has not
\* removed since.
Members == { l \in Links : applied[l].reg = 1 /\ applied[l].removed = 0 }

\* The hub has received link l's register (unregister) request and is about
\* to apply it.
Inserting(l) == hub.pc = "insert" /\ hub.conn = l

Removing(l) == hub.pc = "remove" /\ hub.conn = l

\* What holds of the membership set in every state.
OneOwnerState ==
  /\ conns = Members
  /\ \A l \in Links :
       /\ applied[l].reg <= 1 /\ applied[l].unreg <= 1
       /\ applied[l].removed <= 1 /\ applied[l].closes <= 1
       /\ lk[l] \in {"new", "registering", "refused"} => applied[l] = NotApplied
       /\ lk[l] \in {"reading", "unregistering", "gone"} =>
            (applied[l].reg = 1 /\ ~Inserting(l)) \/ (applied[l].reg = 0 /\ Inserting(l))
       /\ lk[l] = "gone" =>
            (applied[l].unreg = 1 /\ ~Removing(l)) \/ (applied[l].unreg = 0 /\ Removing(l))
       /\ lk[l] # "gone" => applied[l].unreg = 0

\* What holds of every step that changes the membership set.
OneOwnerStep ==
  conns' # conns =>
    /\ hub.pc \in {"insert", "remove", "evict"}
    /\ (conns' \ conns) \cup (conns \ conns') = {hub.conn}

\* C26: the membership set changes only in a step of the hub loop, by the one
\* connection the loop has in hand; a link's register request is applied
\* exactly once, after the hub received it, and so is its unregister request;
\* the set holds exactly the links registered and not removed since, and no
\* link is removed or closed twice.
C26_MembershipHasOneOwner == []OneOwnerState /\ [][OneOwnerStep]_vars

\* One link's register request and its unregister request have each been
\* applied once and it is removed and closed, while the other link is
\* registered and has received a broadcast.
C26_Witness ==
  \E l, o \in Links :
    /\ lk[l] = "gone"
    /\ applied[l] = [reg |-> 1, unreg |-> 1, removed |-> 1, closes |-> 1, evicted |-> 0]
    /\ sock[l] = "closed"
    /\ got[o] # {}
    /\ o \in conns
    /\ hub.pc = "select"

\* The hub is delivering a broadcast.
Broadcasting == hub.pc \in {"range", "write", "evict"}

\* The links the range of the current broadcast is done with.
Visited ==
  (hub.start \ hub.todo) \ (IF hub.pc \in {"write", "evict"} THEN {hub.conn} ELSE {})

\* Link l received the current broadcast and is still registered.
Delivered(l) == hub.msg \in got[l] /\ l \in conns /\ l \notin hub.failed

\* Link l did not receive the current broadcast, its write failed, and it was
\* removed from the membership set and closed.
Evicted(l) ==
  /\ hub.msg \notin got[l]
  /\ l \in hub.failed
  /\ l \notin conns
  /\ sock[l] = "closed"

\* C27: while the hub delivers a broadcast, the links it set out to visit are
\* those registered when it received the broadcast; each link it is done with
\* either received the message and is still registered or was removed and
\* closed after its write failed; and when the range ends it is done with
\* every one of them.
C27_BroadcastReachesEveryLink ==
  Broadcasting =>
    /\ hub.start = conns \cup hub.failed
    /\ \A l \in Visited : Delivered(l) \/ Evicted(l)
    /\ (hub.pc = "range" /\ hub.todo = {}) => Visited = hub.start

\* A broadcast to two registered links has ended: one received the message,
\* the other was evicted.
C27_Witness ==
  /\ hub.pc = "range"
  /\ hub.todo = {}
  /\ hub.start = Links
  /\ \E l, o \in Links : Delivered(l) /\ Evicted(o)

\* C28: a delivery attempt does not last forever (it ends with the message
\* written or with the link evicted and closed), so the hub loop serves every
\* pending register request, every pending unregister request and every
\* broadcast it has received.
C28_StalledLinkCannotBlockHub ==
  /\ (hub.pc = "write") ~> (hub.pc # "write")
  /\ \A l \in Links : (lk[l] = "registering") ~> (lk[l] # "registering")
  /\ \A l \in Links : (lk[l] = "unregistering") ~> (lk[l] = "gone")
  /\ Broadcasting ~> (hub.pc = "select")

\* C29: a call of IsConnected that does not overlap a change of the
\* membership set returns true exactly when at least one link is registered:
\* false before any register request has been applied, true while a link
\* whose registration was applied has not been removed, false again once
\* every such link has been unregistered or evicted.
C29_IsConnectedTellsMembership ==
  (connected.called /\ connected.stable) =>
    connected.result = (connected.members # {})

\* IsConnected returned false after both links had been registered and
\* removed again.
C29_Witness ==
  /\ connected.called
  /\ connected.stable
  /\ connected.ever = Links
  /\ connected.members = {}
  /\ ~connected.result

\* ---- the workspace port (SpecPort)

\* The port lies in [8123, 8200).
InPortRange(port) == BasePort <= port /\ port < BasePort + PortSpan

\* The accumulator of simpleHash has gone below zero: hash*31 + int(c) has
\* overflowed the int.
Overflowed == hpc = "range" /\ IsNegative(hhash)

\* C30: in a build of either width and of either text of the function, the
\* port generateWorkspacePort returns lies in [8123, 8200), whatever the
\* working directory.
C30_PortInRange == hpc = "done" => InPortRange(hport)

\* The same of the text of cmd/devgru/main.go alone.
PortInRangeOfMain == (hpc = "done" /\ hsrc = "main.go") => InPortRange(hport)


\* The server and the extension have each computed a port from the path.
BothComputed == hpc = "done" /\ epc = "done" /\ hidx > 0 /\ eidx > 0

\* C31: when the server and the extension have each computed the port of
\* the same workspace path, the two ports are equal.
C31_PortsAgree == BothComputed => hport = eport

\* The same for the short paths of the runes '/', 'a' and 'z', whose
\* accumulator stays below 2^31 - 1 on both sides.
PortsAgreeOnShortPaths ==
  (BothComputed /\ hpath \in UNION { [1..n -> Runes] : n \in 0..MaxPathLen })
    => hport = eport

\* The hash of the reference algorithm over the first n characters: a = a*31 +
\* code(c) from 0, in whole numbers with no reduction.
RECURSIVE ReferenceHash(_, _)
ReferenceHash(path, n) ==
  IF n = 0 THEN NumberZero
  ELSE MulAdd(ReferenceHash(path, n - 1), HashFactor, path[n])

\* The port of the reference algorithm: 8123 + (abs(a) mod 77).
ReferencePort(path) == BasePort + UMod(ReferenceHash(path, Len(path)), PortSpan)

\* C32: the port the server's function (the text of cmd/devgru/main.go)
\* computes from a path is the port of the reference algorithm.
C32_PortIsReference ==
  (hpc = "done" /\ hidx > 0 /\ hsrc = "main.go") => hport = ReferencePort(hpath)

\* The same for the paths whose accumulator stays below 2^31 - 1.
PortIsReferenceOnShortPaths ==
  (hpc = "done" /\ hidx > 0 /\ hsrc = "main.go" /\ Len(hpath) <= MaxPathLen)
    => hport = ReferencePort(hpath)


\* ---- worker ids (SpecValidate)

\* postProcess has accepted the configuration.
Accepted == vpc = "processed" /\ verr = Nil

\* The worker results of the run that carry the consensus' winner id.
WinnerResults == {i \in 1..Len(cworkers) : cworkers[i].WorkerID = cout.consensus.Winner}

\* C33: a configuration that validation accepts has pairwise distinct worker
\* ids, and the winner id of a consensus of a run on it belongs to exactly one
\* worker result.
C33_AcceptedWorkerIdsDistinct ==
  Accepted =>
    /\ \A i, j \in 1..Len(vcfg.Workers) :
         i # j => vcfg.Workers[i].ID # vcfg.Workers[j].ID
    /\ (cpc = "returned" /\ cout.consensus.present) => Cardinality(WinnerResults) = 1

\* A run on an accepted configuration returned a consensus whose winner id
\* two worker results carry.
AmbiguousWinner ==
  Accepted /\ cpc = "returned" /\ cout.consensus.present /\ Cardinality(WinnerResults) = 2


\* ---- the evaluation in the run's result (SpecConsensus)

\* What Run returns after this call of runConsensus: its result holds the
\* workers it passed to runConsensus.
ReturnedRun == RunReturn([RunResult EXCEPT !.Workers = cworkers], cout.consensus, cout.err)

\* The places in the run's workers of the successful ones, in order: the k-th
\* is the worker runConsensus evaluated as its k-th.
SuccessfulPlaces ==
  SelectSeq([i \in 1..Len(cworkers) |-> i], LAMBDA i : IsSuccessful(cworkers[i]))

\* runConsensus returned a consensus of score_top1 with at least one judge.
JudgedRun ==
  /\ cpc = "returned"
  /\ cout.err = Nil
  /\ config.Algorithm = "score_top1"
  /\ Len(config.Judges) >= 1

\* C34: after a score_top1 run with at least one judge, each successful
\* worker's entry in RunResult.Workers holds the judge results and the average
\* score the consensus step computed for it.
C34_ResultCarriesEvaluation ==
  JudgedRun =>
    \A k \in 1..Len(cout.evaluatedWorkers) :
      LET entry == ReturnedRun.Workers[SuccessfulPlaces[k]]
      IN /\ entry.JudgeResults = cout.evaluatedWorkers[k].JudgeResults
         /\ entry.AverageScore = cout.evaluatedWorkers[k].AverageScore

\* The slice runConsensus worked on holds the evaluation, and the entries of
\* the result are as the workers left them.
EvaluationStaysInside ==
  JudgedRun =>
    /\ cout.workers = cout.evaluatedWorkers
    /\ ReturnedRun.Workers = cworkers
    /\ \A i \in 1..Len(cworkers) : cworkers[i].JudgeResults = <<>>


\* ---- the winner of a returned consensus (Spec)

\* C35: when Run returns a consensus, its winner is the id of a worker of
\* RunResult.Workers with no error and non-empty content, its content is that
\* worker's, its participant count is the number of such workers and at least
\* 1, and no worker that ended with an error is the winner.
C35_WinnerIsSuccessfulWorker ==
  (RunDone /\ result.Consensus.present) =>
     /\ \E i \in GoodIdx(result.Workers) :
          /\ result.Consensus.Winner = result.Workers[i].WorkerID
          /\ result.Consensus.Content = result.Workers[i].Content
     /\ result.Consensus.Participants = Cardinality(GoodIdx(result.Workers))
     /\ result.Consensus.Participants >= 1
     /\ \A i \in WorkerIdx :
          result.Workers[i].Error # Nil
            => result.Consensus.Winner # result.Workers[i].WorkerID

\* The first worker streamed content and then failed at the deadline; the
\* second one won alone.
C35_Witness ==
  /\ RunDone /\ NumWorkers = 2
  /\ result.Workers[1].Error = "ctx" /\ result.Workers[1].Content # ""
  /\ result.Consensus.present
  /\ result.Consensus.Winner = result.Workers[2].WorkerID
  /\ result.Consensus.Participants = 1

\* The same after a stream error.
C35_WitnessStreamError ==
  /\ RunDone /\ NumWorkers = 2
  /\ result.Workers[1].Error = "stream" /\ result.Workers[1].Content # ""
  /\ result.Consensus.present
  /\ result.Consensus.Winner = result.Workers[2].WorkerID


\* ---- when the judges are asked (Spec)

\* The judges were asked: the consensus step took a reply of each judge for
\* as many workers as creplies has rows.
JudgesAsked == creplies # <<>>

\* Every worker task has returned.
WorkersFinished == \A i \in WorkerIdx : wpc[i] = "done"

JudgesAskedInOrder ==
  /\ JudgesAsked => /\ WorkersFinished
                    /\ config.Algorithm = "score_top1"
                    /\ Len(config.Judges) > 0
  /\ RunDone => Len(creplies) <= Cardinality(GoodIdx(result.Workers))
  /\ (RunDone /\ runErr # "failed to run workers"
        /\ config.Algorithm = "score_top1" /\ Len(config.Judges) > 0)
       => /\ Len(creplies) = Cardinality(GoodIdx(result.Workers))
          /\ \A k \in 1..Len(creplies) : Len(creplies[k]) = Len(config.Judges)
  /\ config.Algorithm = "majority" => ~JudgesAsked
  /\ GoodIdx(result.Workers) = {} => ~JudgesAsked

\* The judges are asked in the step from the consensus call only, after Wait
\* has returned.
JudgesAskedStep ==
  creplies' # creplies => (pc = "consensus" /\ WaitReturns(wpc) /\ creplies = <<>>)

\* C36: the judges are asked only after every worker task has finished, and
\* only for the workers with no error and non-empty content, one reply of
\* each judge for each of them; under majority, and when no worker succeeded,
\* no judge is asked.
C36_JudgesAfterWorkers == []JudgesAskedInOrder /\ [][JudgesAskedStep]_vars

\* Of two workers the first failed after streaming content; the judge was
\* asked about the second one only.
C36_Witness ==
  /\ RunDone /\ NumWorkers = 2 /\ config.Algorithm = "score_top1"
  /\ result.Workers[1].Error # Nil /\ result.Workers[1].Content # ""
  /\ Good(result.Workers[2])
  /\ Len(creplies) = 1 /\ Len(creplies[1]) = 1


\* ---- who touches the membership set (SpecLinks)

\* run is at a statement that writes s.connections: the insertion of a
\* register request, or the deletion of an unregister request or of an
\* eviction for a connection that is in the map.
HubWritesMembership ==
  \/ hub.pc = "insert"
  \/ hub.pc \in {"remove", "evict"} /\ Registered(hub.conn, conns)

\* C37: IsConnected never reads the membership set while the hub loop is
\* inserting into it or deleting from it.
C37_MembershipAccessExclusive ==
  [][connected' # connected => ~HubWritesMembership]_vars

\* A call of IsConnected read the length while run was inserting the first
\* link, and answered that nothing is connected.
RacedWithInsert ==
  /\ connected.called /\ ~connected.stable
  /\ hub.pc = "insert"
  /\ ~connected.result


\* ---- the life of a link in the hub (SpecLinks)

\* C38: the hub processes a link's unregister request only after it has
\* inserted the link; a link that was removed from the membership set, by its
\* unregister request or by an eviction, is not in the set and is not inserted
\* again; and the hub closes each link at most once.
C38_LinkLifecycle ==
  \A l \in Links :
    /\ (Removing(l) \/ applied[l].unreg > 0) => applied[l].reg = 1
    /\ applied[l].reg <= 1
    /\ applied[l].removed >= 1 => (l \notin conns /\ ~Inserting(l))
    /\ applied[l].closes <= 1
    /\ applied[l].closes = applied[l].removed

\* A link was evicted by a broadcast, and its reader's unregister request was
\* processed afterwards: it was removed and closed once.
C38_Witness ==
  \E l \in Links :
    /\ lk[l] = "gone"
    /\ hub.pc = "select"
    /\ applied[l] = [reg |-> 1, unreg |-> 1, removed |-> 1, closes |-> 1, evicted |-> 1]
    /\ sock[l] = "closed"


\* ---- the end of links and of the hub (SpecLinksLive)

\* The reader of link l has finished, and the hub has removed and closed the
\* link.
Retired(l) == lk[l] = "gone" /\ l \notin conns /\ sock[l] = "closed"

\* C39: every link whose read loop has ended is eventually removed from the
\* membership set and closed and its reader finishes, no handler stays blocked
\* for ever on the register queue, and after the shutdown the hub loop
\* terminates.
C39_LinksAndHubEnd ==
  /\ \A l \in Links : (lk[l] = "unregistering") ~> Retired(l)
  /\ \A l \in Links : (lk[l] = "registering") ~> (lk[l] # "registering")
  /\ (~running) ~> (hub.pc = "exited")

\* After the shutdown run has returned while the reader of a registered link
\* waits to hand the link to the unregister queue: nobody receives from it
\* any more.
StrandedAfterShutdown ==
  \E l \in Links :
    /\ ~running
    /\ hub.pc = "exited"
    /\ lk[l] = "unregistering"
    /\ l \in conns
    /\ sock[l] = "open"

\* After the shutdown run waits in its select with every link's reader still
\* reading: it returns only if a request arrives.
HubWaitsAfterShutdown ==
  /\ ~running
  /\ hub.pc = "select"
  /\ \A l \in Links : lk[l] = "reading"
  /\ sender.pc # "sending"


\* ------------------------------------------------------------------ C40
\* The collector stopped reading the response channel.
CollectorStopped == ppc # "off" /\ streamCollector.returned

\* The producer goroutine returned and its deferred close ran.
ProducerEnded == ppc = "exited" /\ chClosed

\* C40: once the stream collector has stopped reading the response channel
\* (after a Done chunk, after an error chunk, or because the deadline
\* fired), the producer goroutine still ends and closes the channel; it
\* does not stay blocked in a send on the full channel.
C40_ProducerEnds == CollectorStopped ~> ProducerEnded

\* The producer is in a send statement on a full channel that nobody reads
\* any more.
StrandedProducer ==
  /\ CollectorStopped
  /\ ppc = "send"
  /\ Len(responseChan) = ChanCap

\* When the collector stopped on a Done chunk, an error chunk or the closed
\* channel, the producer has nothing left to send and ends.
StoppedByChunkEnds ==
  (CollectorStopped /\ streamCollector.Error # "ctx") ~> ProducerEnded

\* The producer never holds a response to send after the collector stopped
\* for a reason other than the done context.
NothingLeftAfterChunkStop ==
  (CollectorStopped /\ streamCollector.Error # "ctx") =>
     (pending = <<>> /\ ppc \in {"return", "exited"})

====
